---- MODULE Spec2Model ----
(***************************************************************************)
(* State-machine model of the XAU/USD live trader core:                    *)
(*   CandleBuffer        (src/candle_buffer.py)                            *)
(*   SessionStateMachine (src/session_state.py)                            *)
(*   EntryDetector       (src/entry_detector.py)                           *)
(*   LiveTrader          (src/live_trader.py), on_tick (src/main.py)       *)
(*                                                                         *)
(* Units.  Instants are whole seconds of New York local time counted from  *)
(* midnight of day 0 (the astimezone conversion keeps the instant, so the  *)
(* model works in the converted representation throughout).  Prices are    *)
(* whole tenths of a point (2010.0 is 20100).                              *)
(***************************************************************************)
EXTENDS Integers, Sequences, FiniteSets, TLC

VARIABLES
    buffer,            \* CandleBuffer fields
    session,           \* SessionStateMachine fields
    detector,          \* EntryDetector fields
    ENABLE_OR_FILTER,  \* config.ENABLE_OR_FILTER, fixed at load time
    now,               \* wall clock read by get_ny_time()
    op,                \* the operation that ran last
    ret,               \* value returned by the last process_candle call
    calls,             \* log of the process_candle calls since reset()
    conc,              \* CandleBuffer.lock and the two threads using it
    closed,            \* every bar ever appended to the two histories
    trader             \* orchestrator and OandaExecutor fields

vars == <<buffer, session, detector, ENABLE_OR_FILTER, now, op, ret, calls,
          conc, closed, trader>>

----------------------------------------------------------------------------
(* Bounds of the model *)

\* deque capacities (config.MAX_1M_CANDLES / MAX_5M_CANDLES, scaled down)
MAX_1M_CANDLES == 5
MAX_5M_CANDLES == 2
\* ticks merged into one in-progress bar
MaxVolume == 2
\* calendar days the wall clock runs through
MaxDays == 2
\* last minute past 09:00 at which the aggregator runs see a tick
BufLastMinute == 35
\* process_candle calls between two reset() calls
MaxCalls == 6
\* config.SKIP_FIRST_N (scaled down)
SKIP_FIRST_N == 1
\* len(candle_history) > 50 (scaled down)
HISTORY_LIMIT == 5
\* len(candle_history) - 20 (scaled down)
FVG_SCAN == 4
\* candle_history[-14:] (scaled down)
ATR_WINDOW == 3

----------------------------------------------------------------------------
(* Python values *)

\* None, kept apart from every price, instant and index
None == 0 - 1

Max(a, b) == IF a >= b THEN a ELSE b
Min(a, b) == IF a <= b THEN a ELSE b
Abs(a) == IF a >= 0 THEN a ELSE 0 - a

\* max(c.high for c in s), min(c.low for c in s), sum(c.volume for c in s)
RECURSIVE MaxHigh(_)
MaxHigh(s) ==
    IF Len(s) = 1 THEN s[1].high ELSE Max(s[1].high, MaxHigh(Tail(s)))

RECURSIVE MinLow(_)
MinLow(s) ==
    IF Len(s) = 1 THEN s[1].low ELSE Min(s[1].low, MinLow(Tail(s)))

RECURSIVE SumVolume(_)
SumVolume(s) ==
    IF s = <<>> THEN 0 ELSE s[1].volume + SumVolume(Tail(s))

\* s[-n:] for 0 < n
LastN(s, n) == IF Len(s) <= n THEN s ELSE SubSeq(s, Len(s) - n + 1, Len(s))

----------------------------------------------------------------------------
(* Time *)

DaySeconds == 24 * 3600
DateOf(t) == t \div DaySeconds
TimeOf(t) == t % DaySeconds
TimeHM(h, m) == h * 3600 + m * 60
At(d, h, m) == d * DaySeconds + TimeHM(h, m)
\* replace(second=0, microsecond=0)
FloorMinute(t) == t - (t % 60)
\* datetime.minute
MinuteOfHour(t) == (t \div 60) % 60

----------------------------------------------------------------------------
(* Candle *)

Candle(timestamp, open_price, high, low, close, volume) ==
    [timestamp |-> timestamp, open |-> open_price, high |-> high,
     low |-> low, close |-> close, volume |-> volume]

NoCandle == Candle(None, None, None, None, None, None)

----------------------------------------------------------------------------
(* CandleBuffer *)

BufferInit ==
    [candles_1m |-> <<>>, candles_5m |-> <<>>,
     current_candle |-> NoCandle, current_minute |-> None]

\* variant: a full history gives up its newest bar
DequeAppend_DropNewest(q, x, maxlen) ==
    IF Len(q) >= maxlen THEN SubSeq(q, 1, Len(q) - 1) \o <<x>>
    ELSE Append(q, x)

\* deque(maxlen=...).append
DequeAppend(q, x, maxlen) ==
    IF Len(q) >= maxlen THEN Tail(q) \o <<x>> ELSE Append(q, x)

Mid(bid, ask) == (bid + ask) \div 2

\* "Verify they are consecutive": the test the code makes on the block
BlockAligned(recent_5) ==
    MinuteOfHour(recent_5[1].timestamp) % 5 = 0

Update5mCandles(b) ==
    IF Len(b.candles_1m) < 5 THEN b
    ELSE LET last_1m == b.candles_1m[Len(b.candles_1m)]
             last_minute == MinuteOfHour(last_1m.timestamp)
             recent_5 == LastN(b.candles_1m, 5)
         IN  IF last_minute % 5 = 4 /\ BlockAligned(recent_5)
             THEN LET candle_5m ==
                          Candle(recent_5[1].timestamp,
                                 recent_5[1].open,
                                 MaxHigh(recent_5),
                                 MinLow(recent_5),
                                 recent_5[5].close,
                                 SumVolume(recent_5))
                  IN  [b EXCEPT !.candles_5m =
                                    DequeAppend(@, candle_5m, MAX_5M_CANDLES)]
             ELSE b

Close1mCandle(b) ==
    IF b.current_candle = NoCandle THEN b
    ELSE Update5mCandles(
             [b EXCEPT !.candles_1m =
                           DequeAppend(@, b.current_candle, MAX_1M_CANDLES)])

\* variant: a tick of the open window also starts a new bar
AddTickBuf_SameWindowOpens(b, timestamp, bid, ask) ==
    LET mid == Mid(bid, ask)
        candle_minute == FloorMinute(timestamp)
    IN  IF b.current_minute = None \/ candle_minute >= b.current_minute
        THEN LET b1 == IF b.current_candle # NoCandle
                       THEN Close1mCandle(b) ELSE b
             IN  [b1 EXCEPT !.current_minute = candle_minute,
                            !.current_candle =
                                Candle(candle_minute, mid, mid, mid, mid, 1)]
        ELSE [b EXCEPT !.current_candle =
                  [@ EXCEPT !.high = Max(@, mid),
                            !.low = Min(@, mid),
                            !.close = mid,
                            !.volume = @ + 1]]

AddTickBuf(b, timestamp, bid, ask) ==
    LET mid == Mid(bid, ask)
        candle_minute == FloorMinute(timestamp)
    IN  IF b.current_minute = None \/ candle_minute > b.current_minute
        THEN LET b1 == IF b.current_candle # NoCandle
                       THEN Close1mCandle(b) ELSE b
             IN  [b1 EXCEPT !.current_minute = candle_minute,
                            !.current_candle =
                                Candle(candle_minute, mid, mid, mid, mid, 1)]
        ELSE [b EXCEPT !.current_candle =
                  [@ EXCEPT !.high = Max(@, mid),
                            !.low = Min(@, mid),
                            !.close = mid,
                            !.volume = @ + 1]]

\* variant: the date of the bar is not compared
InORPeriod_AnyDate(candle, date) ==
    /\ TimeHM(9, 30) <= TimeOf(candle.timestamp)
    /\ TimeOf(candle.timestamp) <= TimeHM(9, 34)

InORPeriod(candle, date) ==
    /\ DateOf(candle.timestamp) = date
    /\ TimeHM(9, 30) <= TimeOf(candle.timestamp)
    /\ TimeOf(candle.timestamp) <= TimeHM(9, 34)

\* get_or_candles(date=None): date defaults to the date of a fresh clock
\* reading, taken here at the instant update() read the clock
GetOrCandles(b, date) ==
    LET Pick(c) == InORPeriod(c, date) IN SelectSeq(b.candles_5m, Pick)

\* variant: [-n:] is taken without the test n > 0
GetLatest1m_NoGuard(b, n) ==
    LET m == IF n > Len(b.candles_1m) THEN Len(b.candles_1m) ELSE n
    IN  IF m > 0 THEN LastN(b.candles_1m, m)
        ELSE SubSeq(b.candles_1m, 1 - m, Len(b.candles_1m))

GetLatest1m(b, n) ==
    LET m == IF n > Len(b.candles_1m) THEN Len(b.candles_1m) ELSE n
    IN  IF m > 0 THEN LastN(b.candles_1m, m) ELSE <<>>

GetLatest5m(b, n) ==
    LET m == IF n > Len(b.candles_5m) THEN Len(b.candles_5m) ELSE n
    IN  IF m > 0 THEN LastN(b.candles_5m, m) ELSE <<>>

----------------------------------------------------------------------------
(* SessionStateMachine *)

SessionStates ==
    {"PRE_OR", "OR_BUILDING", "OR_LOCKED", "POST_OR_TRADING", "SESSION_CLOSED"}

\* config.MIN_OR_RANGE = 12.0 and config.MAX_OR_RANGE = 18.0, in tenths
MIN_OR_RANGE == 12 * 10
MAX_OR_RANGE == 18 * 10

SessionInit ==
    [state |-> "PRE_OR", or_high |-> None, or_low |-> None,
     or_open_time |-> None, or_close_time |-> None,
     trade_taken |-> FALSE, current_date |-> None]

TransitionTo(s, new_state) == [s EXCEPT !.state = new_state]

\* variant: trade_taken survives the rollover
ResetForNewDay_KeepTrade(s, new_date) ==
    [state |-> "PRE_OR", or_high |-> None, or_low |-> None,
     or_open_time |-> None, or_close_time |-> None,
     trade_taken |-> s.trade_taken, current_date |-> new_date]

ResetForNewDay(s, new_date) ==
    [state |-> "PRE_OR", or_high |-> None, or_low |-> None,
     or_open_time |-> None, or_close_time |-> None,
     trade_taken |-> FALSE, current_date |-> new_date]

\* the test guarding _reset_for_new_day in update()
IsNewDay(s, current_date) == s.current_date # current_date

HandlePreOr(s, current_time) ==
    IF current_time >= TimeHM(9, 30)
    THEN TransitionTo(s, "OR_BUILDING") ELSE s

\* variant: the upper limit is not tested
RangeRejected_MinOnly(or_range) == or_range < MIN_OR_RANGE

\* the two range tests made when ENABLE_OR_FILTER is set
RangeRejected(or_range) ==
    or_range < MIN_OR_RANGE \/ or_range > MAX_OR_RANGE

\* variant: the two bounds are exchanged
HandleOrBuilding_Swapped(s, current_time, b, today, filter) ==
    IF current_time >= TimeHM(9, 35)
    THEN LET or_candles == GetOrCandles(b, today)
         IN  IF Len(or_candles) > 0
             THEN LET s1 == [s EXCEPT
                        !.or_high = MinLow(or_candles),
                        !.or_low = MaxHigh(or_candles),
                        !.or_open_time = or_candles[1].timestamp,
                        !.or_close_time = or_candles[Len(or_candles)].timestamp]
                      or_range == s1.or_high - s1.or_low
                  IN  IF filter /\ RangeRejected(or_range)
                      THEN TransitionTo(s1, "SESSION_CLOSED")
                      ELSE TransitionTo(s1, "OR_LOCKED")
             ELSE s
    ELSE s

HandleOrBuilding(s, current_time, b, today, filter) ==
    IF current_time >= TimeHM(9, 35)
    THEN LET or_candles == GetOrCandles(b, today)
         IN  IF Len(or_candles) > 0
             THEN LET s1 == [s EXCEPT
                        !.or_high = MaxHigh(or_candles),
                        !.or_low = MinLow(or_candles),
                        !.or_open_time = or_candles[1].timestamp,
                        !.or_close_time = or_candles[Len(or_candles)].timestamp]
                      or_range == s1.or_high - s1.or_low
                  IN  IF filter /\ RangeRejected(or_range)
                      THEN TransitionTo(s1, "SESSION_CLOSED")
                      ELSE TransitionTo(s1, "OR_LOCKED")
             ELSE s
    ELSE s

\* variant: wrong target state
HandleOrLocked_Back(s) == TransitionTo(s, "OR_BUILDING")

HandleOrLocked(s) == TransitionTo(s, "POST_OR_TRADING")

\* variant: the OR bounds are dropped when the session ends
HandlePostOrTrading_Clear(s, current_time) ==
    IF current_time >= TimeHM(16, 0)
    THEN TransitionTo([s EXCEPT !.or_high = None, !.or_low = None],
                      "SESSION_CLOSED")
    ELSE s

HandlePostOrTrading(s, current_time) ==
    IF current_time >= TimeHM(16, 0)
    THEN TransitionTo(s, "SESSION_CLOSED") ELSE s

\* update(candle_buffer) with get_ny_time() = ny_time
UpdateSession(s, ny_time, b, filter) ==
    LET current_time == TimeOf(ny_time)
        current_date == DateOf(ny_time)
        s0 == IF IsNewDay(s, current_date)
              THEN ResetForNewDay(s, current_date) ELSE s
    IN  CASE s0.state = "PRE_OR" -> HandlePreOr(s0, current_time)
          [] s0.state = "OR_BUILDING" ->
                 HandleOrBuilding(s0, current_time, b, current_date, filter)
          [] s0.state = "OR_LOCKED" -> HandleOrLocked(s0)
          [] s0.state = "POST_OR_TRADING" ->
                 HandlePostOrTrading(s0, current_time)
          [] OTHER -> s0

\* variant: the flag is set but the session is not closed
MarkTradeTakenSession_FlagOnly(s) == [s EXCEPT !.trade_taken = TRUE]

MarkTradeTakenSession(s) ==
    TransitionTo([s EXCEPT !.trade_taken = TRUE], "SESSION_CLOSED")

\* variant: the lifecycle state is not consulted
CanTradeOf_AnyState(s) ==
    ~s.trade_taken /\ s.or_high # None /\ s.or_low # None

CanTradeOf(s) ==
    /\ s.state = "POST_OR_TRADING"
    /\ ~s.trade_taken
    /\ s.or_high # None
    /\ s.or_low # None

GetOrRange(s) == <<s.or_high, s.or_low>>

----------------------------------------------------------------------------
(* EntryDetector *)

FVG_LOOKBACK == 3
\* breakout_candle['index'] + 10, scaled down: as in the source, more bars
\* than one gap pattern spans
FVG_WAIT == FVG_LOOKBACK + 1
\* the 0.50 safety fallback: half a point, in tenths
SL_FALLBACK == 10 \div 2

RECURSIVE Factorial(_)
Factorial(n) == IF n <= 1 THEN 1 ELSE n * Factorial(n - 1)

\* sl and tp of a signal are kept in units of 1/FINE of a tenth, so that
\* 0.8 * sum(high - low) / len(recent) is a whole number
FINE == 5 * Factorial(ATR_WINDOW)

NoSignal ==
    [model |-> 0, direction |-> "none", entry_time |-> None,
     entry_price |-> None, sl |-> None, tp |-> None,
     breakout_time |-> None, retest_time |-> None]

NoBreakout == [candle |-> NoCandle, index |-> None]

\* the fields reset() assigns
DetectorInit ==
    [breakout_seen |-> FALSE, breakout_direction |-> "none",
     breakout_time |-> None, breakout_candle |-> NoBreakout,
     retest_active |-> FALSE, retest_candle |-> NoCandle,
     retest_start_idx |-> None,
     confirmed |-> FALSE, invalidated |-> FALSE,
     entry_signal |-> NoSignal, signal_delivered |-> FALSE,
     candle_history |-> <<>>, candles_since_or_lock |-> 0,
     or_high |-> None, or_low |-> None, or_range |-> None]

\* variant: the sliding window is dropped with the breakout
ResetAfterInvalidation_DropHistory(d) ==
    [d EXCEPT !.breakout_seen = FALSE, !.breakout_direction = "none",
              !.breakout_time = None, !.breakout_candle = NoBreakout,
              !.retest_active = FALSE, !.retest_candle = NoCandle,
              !.retest_start_idx = None,
              !.invalidated = FALSE, !.confirmed = FALSE,
              !.entry_signal = NoSignal, !.signal_delivered = FALSE,
              !.candle_history = <<>>]

\* variant: the invalidation is left as a terminal state
ResetAfterInvalidation_Terminal(d) ==
    [d EXCEPT !.breakout_seen = FALSE, !.breakout_direction = "none",
              !.breakout_time = None, !.breakout_candle = NoBreakout,
              !.retest_active = FALSE, !.retest_candle = NoCandle,
              !.retest_start_idx = None,
              !.invalidated = TRUE, !.confirmed = FALSE,
              !.entry_signal = NoSignal, !.signal_delivered = FALSE]

ResetAfterInvalidation(d) ==
    [d EXCEPT !.breakout_seen = FALSE, !.breakout_direction = "none",
              !.breakout_time = None, !.breakout_candle = NoBreakout,
              !.retest_active = FALSE, !.retest_candle = NoCandle,
              !.retest_start_idx = None,
              !.invalidated = FALSE, !.confirmed = FALSE,
              !.entry_signal = NoSignal, !.signal_delivered = FALSE]

\* is_invalidated()
IsInvalidated(d) == d.invalidated

\* candle_history.append(candle); pop(0) past the limit
HistoryAppend(h, candle) ==
    LET h1 == Append(h, candle)
    IN  IF Len(h1) > HISTORY_LIMIT THEN Tail(h1) ELSE h1

RECURSIVE SumRange(_)
SumRange(s) ==
    IF s = <<>> THEN 0 ELSE (s[1].high - s[1].low) + SumRange(Tail(s))

\* variant: a stop equal to the entry is kept
GenerateEntrySignal_EqualKept(d, candle, model) ==
    LET entry_price == candle.close
        long == d.breakout_direction = "long"
        structural == model = 1 /\ d.retest_candle # NoCandle
        sl_1 == IF long
                THEN IF d.retest_candle.low > entry_price
                     THEN entry_price - SL_FALLBACK ELSE d.retest_candle.low
                ELSE IF d.retest_candle.high < entry_price
                     THEN entry_price + SL_FALLBACK ELSE d.retest_candle.high
        sl_dist_1 == IF long THEN entry_price - sl_1 ELSE sl_1 - entry_price
        recent == IF Len(d.candle_history) >= ATR_WINDOW
                  THEN LastN(d.candle_history, ATR_WINDOW)
                  ELSE d.candle_history
        sl_dist_2 == (4 * SumRange(recent) * FINE) \div (5 * Len(recent))
        sl_dist == IF structural THEN sl_dist_1 * FINE ELSE sl_dist_2
        sl == IF long THEN entry_price * FINE - sl_dist
                      ELSE entry_price * FINE + sl_dist
        tp == IF long THEN entry_price * FINE + 2 * sl_dist
                      ELSE entry_price * FINE - 2 * sl_dist
    IN  [d EXCEPT !.entry_signal =
            [model |-> model, direction |-> d.breakout_direction,
             entry_time |-> candle.timestamp, entry_price |-> entry_price,
             sl |-> sl, tp |-> tp, breakout_time |-> d.breakout_time,
             retest_time |-> IF d.retest_candle # NoCandle
                             THEN d.retest_candle.timestamp ELSE None]]

GenerateEntrySignal(d, candle, model) ==
    LET entry_price == candle.close
        long == d.breakout_direction = "long"
        structural == model = 1 /\ d.retest_candle # NoCandle
        \* Model 1: retest structure, with the 0.50 fallback
        sl_1 == IF long
                THEN IF d.retest_candle.low >= entry_price
                     THEN entry_price - SL_FALLBACK ELSE d.retest_candle.low
                ELSE IF d.retest_candle.high <= entry_price
                     THEN entry_price + SL_FALLBACK ELSE d.retest_candle.high
        sl_dist_1 == IF long THEN entry_price - sl_1 ELSE sl_1 - entry_price
        \* Model 2 or fallback: 0.8 * mean(high - low)
        recent == IF Len(d.candle_history) >= ATR_WINDOW
                  THEN LastN(d.candle_history, ATR_WINDOW)
                  ELSE d.candle_history
        sl_dist_2 == (4 * SumRange(recent) * FINE) \div (5 * Len(recent))
        sl_dist == IF structural THEN sl_dist_1 * FINE ELSE sl_dist_2
        sl == IF long THEN entry_price * FINE - sl_dist
                      ELSE entry_price * FINE + sl_dist
        tp == IF long THEN entry_price * FINE + 2 * sl_dist
                      ELSE entry_price * FINE - 2 * sl_dist
    IN  [d EXCEPT !.entry_signal =
            [model |-> model, direction |-> d.breakout_direction,
             entry_time |-> candle.timestamp, entry_price |-> entry_price,
             sl |-> sl, tp |-> tp, breakout_time |-> d.breakout_time,
             retest_time |-> IF d.retest_candle # NoCandle
                             THEN d.retest_candle.timestamp ELSE None]]

\* variant: the time of the breakout bar is not recorded
CheckForBreakout_NoTime(d, candle) ==
    LET Record(direction) ==
            [d EXCEPT !.breakout_seen = TRUE,
                      !.breakout_direction = direction,
                      !.breakout_candle =
                          [candle |-> candle,
                           index |-> Len(d.candle_history) - 1]]
    IN  IF candle.close > d.or_high THEN Record("long")
        ELSE IF candle.close < d.or_low THEN Record("short")
        ELSE d

CheckForBreakout(d, candle) ==
    LET Record(direction) ==
            [d EXCEPT !.breakout_seen = TRUE,
                      !.breakout_direction = direction,
                      !.breakout_time = candle.timestamp,
                      !.breakout_candle =
                          [candle |-> candle,
                           index |-> Len(d.candle_history) - 1]]
    IN  IF candle.close > d.or_high THEN Record("long")
        ELSE IF candle.close < d.or_low THEN Record("short")
        ELSE d

\* tol = or_range * RETEST_PCT, RETEST_PCT = 0.05
Tol(d) == (d.or_range * 5) \div 100
Anchor(d) == IF d.breakout_direction = "long" THEN d.or_high ELSE d.or_low

\* variant: the close is compared with the far OR bound
RetestInvalidated_FarBound(d, candle) ==
    \/ d.breakout_direction = "long" /\ candle.close < d.or_low
    \/ d.breakout_direction = "short" /\ candle.close > d.or_high

\* the invalidation test of _check_for_retest
RetestInvalidated(d, candle) ==
    \/ d.breakout_direction = "long" /\ candle.close < d.or_high
    \/ d.breakout_direction = "short" /\ candle.close > d.or_low

\* variant: the band test comes before the invalidation test
CheckForRetest_ZoneFirst(d, candle) ==
    LET band_low == Anchor(d) - Tol(d)
        band_high == Anchor(d) + Tol(d)
        entered_zone == candle.low <= band_high /\ candle.high >= band_low
    IN  IF entered_zone
        THEN [d EXCEPT !.retest_active = TRUE,
                       !.retest_candle = candle,
                       !.retest_start_idx = Len(d.candle_history) - 1]
        ELSE IF RetestInvalidated(d, candle) THEN ResetAfterInvalidation(d)
        ELSE d

CheckForRetest(d, candle) ==
    LET band_low == Anchor(d) - Tol(d)
        band_high == Anchor(d) + Tol(d)
        entered_zone == candle.low <= band_high /\ candle.high >= band_low
    IN  IF RetestInvalidated(d, candle) THEN ResetAfterInvalidation(d)
        ELSE IF entered_zone
             THEN [d EXCEPT !.retest_active = TRUE,
                            !.retest_candle = candle,
                            !.retest_start_idx = Len(d.candle_history) - 1]
             ELSE d

\* the invalidation test of _check_for_confirmation
ConfirmInvalidated(d, candle) ==
    \/ d.breakout_direction = "long" /\ candle.low < Anchor(d) - Tol(d)
    \/ d.breakout_direction = "short" /\ candle.high > Anchor(d) + Tol(d)

\* body_ratio >= 0.30 with full_range = max(high - low, 0.0001)
BodyRatioOK(candle) ==
    LET body_size == Abs(candle.close - candle.open)
        full_range == Max((candle.high - candle.low) * 1000, 1)
    IN  10 * body_size * 1000 >= 3 * full_range

Displacement(d, candle) ==
    LET h == d.candle_history
        prev_candle == h[Len(h) - 1]
        cons_low == d.retest_candle.low - Tol(d)
        cons_high == d.retest_candle.high + Tol(d)
        c1 == h[Len(h) - 2]
    IN  IF d.breakout_direction = "long"
        THEN \/ /\ candle.close > cons_high
                /\ candle.close > prev_candle.close
                /\ candle.high > prev_candle.high
                /\ BodyRatioOK(candle)
             \/ Len(h) >= 3 /\ c1.high < candle.low
        ELSE \/ /\ candle.close < cons_low
                /\ candle.close < prev_candle.close
                /\ candle.low < prev_candle.low
                /\ BodyRatioOK(candle)
             \/ Len(h) >= 3 /\ c1.low > candle.high

CheckForConfirmation(d, candle) ==
    IF d.retest_candle = NoCandle THEN d
    ELSE IF ConfirmInvalidated(d, candle) THEN ResetAfterInvalidation(d)
    ELSE IF Len(d.candle_history) < 2 THEN d
    ELSE IF Displacement(d, candle)
         THEN GenerateEntrySignal([d EXCEPT !.confirmed = TRUE], candle, 1)
         ELSE d

\* block = candle_history[i:i + FVG_LOOKBACK] (i counted from 0) has a gap
GapAt(d, i) ==
    LET first == d.candle_history[i + 1]
        last == d.candle_history[i + FVG_LOOKBACK]
    IN  IF d.breakout_direction = "long"
        THEN first.high < last.low
        ELSE first.low > last.high

\* variant: the first bar of the block is taken as the entry bar
CheckForFvg_EntryFirst(d) ==
    LET n == Len(d.candle_history)
        start_idx == d.breakout_candle.index
        search_start == Max(start_idx, n - FVG_SCAN)
        hits == {i \in search_start..(n - FVG_LOOKBACK) : GapAt(d, i)}
    IN  IF n < FVG_LOOKBACK \/ hits = {} THEN d
        ELSE LET i == CHOOSE j \in hits : \A k \in hits : j <= k
                 entry_candle == d.candle_history[i + 1]
             IN  GenerateEntrySignal([d EXCEPT !.confirmed = TRUE],
                                     entry_candle, 2)

\* variant: the newest window with a gap is taken, not the oldest
CheckForFvg_LastGap(d) ==
    LET n == Len(d.candle_history)
        start_idx == d.breakout_candle.index
        search_start == Max(start_idx, n - FVG_SCAN)
        hits == {i \in search_start..(n - FVG_LOOKBACK) : GapAt(d, i)}
    IN  IF n < FVG_LOOKBACK \/ hits = {} THEN d
        ELSE LET i == CHOOSE j \in hits : \A k \in hits : j >= k
                 entry_candle == d.candle_history[i + FVG_LOOKBACK]
             IN  GenerateEntrySignal([d EXCEPT !.confirmed = TRUE],
                                     entry_candle, 2)

CheckForFvg(d) ==
    LET n == Len(d.candle_history)
        start_idx == d.breakout_candle.index
        search_start == Max(start_idx, n - FVG_SCAN)
        hits == {i \in search_start..(n - FVG_LOOKBACK) : GapAt(d, i)}
    IN  IF n < FVG_LOOKBACK \/ hits = {} THEN d
        ELSE LET i == CHOOSE j \in hits : \A k \in hits : j <= k
                 entry_candle == d.candle_history[i + FVG_LOOKBACK]
             IN  GenerateEntrySignal([d EXCEPT !.confirmed = TRUE],
                                     entry_candle, 2)

\* variant: the delivered flag is never set
DeliverOnce_Always(d) == [d |-> d, ret |-> d.entry_signal]

\* the "return signal only once" branch
DeliverOnce(d) ==
    IF d.signal_delivered
    THEN [d |-> d, ret |-> NoSignal]
    ELSE [d |-> [d EXCEPT !.signal_delivered = TRUE], ret |-> d.entry_signal]

\* variant: the warm-up is one bar short
ProcessCandleDet_ShortWarmup(d, candle, or_high, or_low) ==
    LET d1 == [d EXCEPT !.or_high = or_high, !.or_low = or_low,
                        !.or_range = or_high - or_low,
                        !.candle_history = HistoryAppend(@, candle),
                        !.candles_since_or_lock = @ + 1]
    IN  IF d1.candles_since_or_lock < SKIP_FIRST_N
        THEN [d |-> d1, ret |-> NoSignal]
        ELSE IF d1.confirmed \/ d1.invalidated
        THEN DeliverOnce(d1)
        ELSE LET d2 == IF ~d1.breakout_seen
                       THEN CheckForBreakout(d1, candle)
                       ELSE IF ~d1.retest_active
                       THEN CheckForRetest(d1, candle)
                       ELSE IF ~d1.confirmed
                       THEN CheckForConfirmation(d1, candle)
                       ELSE d1
                 d3 == IF /\ d2.breakout_seen
                          /\ ~d2.retest_active
                          /\ ~d2.confirmed
                          /\ Len(d2.candle_history)
                                 >= d2.breakout_candle.index + FVG_WAIT
                       THEN CheckForFvg(d2) ELSE d2
             IN  [d |-> d3, ret |-> d3.entry_signal]

\* process_candle(candle, or_high, or_low): new fields and returned value
ProcessCandleDet(d, candle, or_high, or_low) ==
    LET d1 == [d EXCEPT !.or_high = or_high, !.or_low = or_low,
                        !.or_range = or_high - or_low,
                        !.candle_history = HistoryAppend(@, candle),
                        !.candles_since_or_lock = @ + 1]
    IN  IF d1.candles_since_or_lock <= SKIP_FIRST_N
        THEN [d |-> d1, ret |-> NoSignal]
        ELSE IF d1.confirmed \/ d1.invalidated
        THEN DeliverOnce(d1)
        ELSE LET d2 == IF ~d1.breakout_seen
                       THEN CheckForBreakout(d1, candle)
                       ELSE IF ~d1.retest_active
                       THEN CheckForRetest(d1, candle)
                       ELSE IF ~d1.confirmed
                       THEN CheckForConfirmation(d1, candle)
                       ELSE d1
                 d3 == IF /\ d2.breakout_seen
                          /\ ~d2.retest_active
                          /\ ~d2.confirmed
                          /\ Len(d2.candle_history)
                                 >= d2.breakout_candle.index + FVG_WAIT
                       THEN CheckForFvg(d2) ELSE d2
             IN  [d |-> d3, ret |-> d3.entry_signal]

----------------------------------------------------------------------------
(* CandleBuffer under its lock: add_tick statement by statement *)

NoTick == [timestamp |-> None, bid |-> None, ask |-> None]
NoQuery == [kind |-> "none", arg |-> None]

\* self.lock = Lock(), the ingestion thread and the query thread at rest;
\* committed is the buffer as the last complete add_tick left it
ConcInit ==
    [lock |-> "free",
     ingest_pc |-> "idle", tick |-> NoTick,
     query_pc |-> "idle", query |-> NoQuery, n |-> None, result |-> <<>>,
     committed |-> BufferInit]

\* variant: the lock is taken without waiting for it
LockFree_NoWait(c) == TRUE

\* "with self.lock" blocks until the lock is free
LockFree(c) == c.lock = "free"

\* the statement add_tick runs first once it holds the lock
FirstStatement(b, timestamp) ==
    IF b.current_minute = None \/ FloorMinute(timestamp) > b.current_minute
    THEN IF b.current_candle # NoCandle THEN "append" ELSE "open_minute"
    ELSE "high"

\* self.candles_1m.append(candle) in _close_1m_candle
Append1m(b) ==
    [b EXCEPT !.candles_1m = DequeAppend(@, b.current_candle, MAX_1M_CANDLES)]

\* what a query returns when it runs on the buffer b from start to end;
\* arg is n, or the date for get_or_candles
QueryResult(b, q) ==
    CASE q.kind = "1m" -> GetLatest1m(b, q.arg)
      [] q.kind = "5m" -> GetLatest5m(b, q.arg)
      [] q.kind = "or" -> GetOrCandles(b, q.arg)

\* the history a query reads
HistoryOf(b, kind) == IF kind = "1m" THEN b.candles_1m ELSE b.candles_5m

\* lines 180-181 and 195-196: n = len(history) if n > len(history)
ClampN(b, q) ==
    IF q.kind = "or" THEN None
    ELSE IF q.arg > Len(HistoryOf(b, q.kind))
         THEN Len(HistoryOf(b, q.kind)) ELSE q.arg

\* lines 182 and 197: list(history)[-n:] if n > 0 else []; lines 214-224
CopyBars(b, q, n) ==
    IF q.kind = "or" THEN GetOrCandles(b, q.arg)
    ELSE IF n > 0 THEN LastN(HistoryOf(b, q.kind), n) ELSE <<>>

\* every bar ever appended to the base and to the aggregate history
ClosedInit == [m1 |-> <<>>, m5 |-> <<>>]

----------------------------------------------------------------------------
(* Orchestrators: LiveTrader (live_trader.py) and on_tick (main.py) *)

\* OandaExecutor.current_position = None
NoPosition == [direction |-> "none", sl |-> None, tp |-> None]

\* LiveTrader and OandaExecutor as constructed; pc is the position of the
\* event loop, passed the timestamps of the bars handed to process_candle,
\* orders the place_order calls with the session date and the outcome,
\* polled whether the loop has polled the buffer since the latest tick
TraderInit ==
    [pc |-> "update", last_candle_time |-> None,
     current_position |-> NoPosition, passed |-> <<>>, orders |-> <<>>,
     polled |-> TRUE]

\* utils.is_market_open(); the modelled days are weekdays
IsMarketOpen(ny_time) ==
    TimeHM(9, 30) <= TimeOf(ny_time) /\ TimeOf(ny_time) <= TimeHM(16, 0)

HasPosition(t) == t.current_position # NoPosition

\* OandaExecutor.place_order(signal) answering ok (a dry run always
\* answers True); the call is logged with the session date
PlaceOrder(t, signal, ok, date) ==
    [t EXCEPT !.current_position =
                  IF ok THEN [direction |-> signal.direction,
                              sl |-> signal.sl, tp |-> signal.tp]
                  ELSE @,
              !.orders = Append(@, [date |-> date, ok |-> ok])]

\* OandaExecutor._close_position(reason)
ClosePosition(t) == [t EXCEPT !.current_position = NoPosition]

\* OandaExecutor.monitor_position(current_price): take-profit or stop hit
ExitHit(t, current_price) ==
    LET pos == t.current_position
        px == current_price * FINE
    IN  IF pos.direction = "long"
        THEN px >= pos.tp \/ px <= pos.sl
        ELSE px <= pos.tp \/ px >= pos.sl

\* variant: a placed order does not close the session
ProcessNewCandle_NoMark(s, d, t, candle, ok) ==
    IF ~CanTradeOf(s) \/ s.or_high = None \/ s.or_low = None
    THEN [s |-> s, d |-> d, t |-> t, called |-> FALSE, ret |-> NoSignal]
    ELSE LET r == ProcessCandleDet(d, candle, s.or_high, s.or_low)
             t1 == [t EXCEPT !.passed = Append(@, candle.timestamp)]
         IN  IF r.ret # NoSignal
             THEN [s |-> s,
                   d |-> r.d,
                   t |-> PlaceOrder(t1, r.ret, ok, s.current_date),
                   called |-> TRUE, ret |-> r.ret]
             ELSE [s |-> s, d |-> r.d, t |-> t1,
                   called |-> TRUE, ret |-> r.ret]

\* LiveTrader._process_new_candle(candle); ok is the answer of place_order
ProcessNewCandle(s, d, t, candle, ok) ==
    IF ~CanTradeOf(s) \/ s.or_high = None \/ s.or_low = None
    THEN [s |-> s, d |-> d, t |-> t, called |-> FALSE, ret |-> NoSignal]
    ELSE LET r == ProcessCandleDet(d, candle, s.or_high, s.or_low)
             t1 == [t EXCEPT !.passed = Append(@, candle.timestamp)]
         IN  IF r.ret # NoSignal
             THEN [s |-> IF ok THEN MarkTradeTakenSession(s) ELSE s,
                   d |-> r.d,
                   t |-> PlaceOrder(t1, r.ret, ok, s.current_date),
                   called |-> TRUE, ret |-> r.ret]
             ELSE [s |-> s, d |-> r.d, t |-> t1,
                   called |-> TRUE, ret |-> r.ret]

\* the entry of the calls log for one process_candle call
CallEntry(d, r) ==
    [ret |-> r.ret, confirmed |-> r.d.confirmed,
     entry_signal |-> r.d.entry_signal,
     invalidated |-> d.breakout_seen /\ ~d.confirmed /\ ~r.d.breakout_seen]

\* LiveTrader._on_tick: the streaming thread feeds the buffer; ticks arrive
\* in time order and the wall clock is the time of the latest tick
LiveOnTick(timestamp, bid, ask) ==
    /\ timestamp > now
    /\ now' = timestamp
    /\ buffer' = AddTickBuf(buffer, timestamp, bid, ask)
    /\ trader' = [trader EXCEPT !.polled = FALSE]
    /\ op' = "live_on_tick"
    /\ UNCHANGED <<session, detector, ENABLE_OR_FILTER, ret, calls,
                   conc, closed>>

\* variant: the detector is not reset on a new day
LoopUpdate_NoReset ==
    /\ trader.pc = "update"
    /\ IF ~IsMarketOpen(now)
       THEN UNCHANGED <<session, detector, ret, calls, trader>>
       ELSE \E s \in {UpdateSession(session, now, buffer,
                                     ENABLE_OR_FILTER)} :
            LET prev_date == session.current_date
                new_day == s.current_date # prev_date /\ prev_date # None
            IN  /\ session' = s
                /\ detector' = detector
                /\ ret' = IF new_day THEN NoSignal ELSE ret
                /\ calls' = IF new_day THEN <<>> ELSE calls
                /\ trader' = [trader EXCEPT !.pc = "poll"]
    /\ op' = "loop_update"
    /\ UNCHANGED <<buffer, ENABLE_OR_FILTER, now, conc, closed>>

\* _event_loop, lines 99-113: market-hours test, session update, detector
\* reset on a new day
LoopUpdate ==
    /\ trader.pc = "update"
    /\ IF ~IsMarketOpen(now)
       THEN UNCHANGED <<session, detector, ret, calls, trader>>
       ELSE \E s \in {UpdateSession(session, now, buffer,
                                     ENABLE_OR_FILTER)} :
            LET prev_date == session.current_date
                new_day == s.current_date # prev_date /\ prev_date # None
            IN  /\ session' = s
                /\ detector' = IF new_day THEN DetectorInit ELSE detector
                /\ ret' = IF new_day THEN NoSignal ELSE ret
                /\ calls' = IF new_day THEN <<>> ELSE calls
                /\ trader' = [trader EXCEPT !.pc = "poll"]
    /\ op' = "loop_update"
    /\ UNCHANGED <<buffer, ENABLE_OR_FILTER, now, conc, closed>>

\* _event_loop, lines 115-123: poll the newest closed bar and process it
\* when it is later than the last one seen
LoopPoll(ok) ==
    /\ trader.pc = "poll"
    /\ LET latest_candles == GetLatest1m(buffer, 1)
           fresh == /\ Len(latest_candles) > 0
                    /\ \/ trader.last_candle_time = None
                       \/ latest_candles[1].timestamp
                              > trader.last_candle_time
       IN  IF fresh
           THEN \E r \in {ProcessNewCandle(session, detector, trader,
                                            latest_candles[1], ok)} :
                    /\ session' = r.s
                    /\ detector' = r.d
                    /\ ret' = IF r.called THEN r.ret ELSE ret
                    /\ calls' = IF r.called
                                THEN Append(calls, CallEntry(detector, r))
                                ELSE calls
                    /\ trader' = [r.t EXCEPT
                           !.last_candle_time = latest_candles[1].timestamp,
                           !.pc = "monitor", !.polled = TRUE]
           ELSE /\ trader' = [trader EXCEPT !.pc = "monitor",
                                            !.polled = TRUE]
                /\ UNCHANGED <<session, detector, ret, calls>>
    /\ op' = "loop_poll"
    /\ UNCHANGED <<buffer, ENABLE_OR_FILTER, now, conc, closed>>

\* _event_loop, lines 125-127, and _monitor_position; broker_closed is the
\* answer of check_if_closed (always False in a dry run)
LoopMonitor(broker_closed) ==
    /\ trader.pc = "monitor"
    /\ LET latest == GetLatest1m(buffer, 1)
           exit == IF broker_closed THEN TRUE
                   ELSE /\ Len(latest) > 0
                        /\ ExitHit(trader, latest[1].close)
       IN  IF HasPosition(trader) /\ exit
           THEN /\ trader' = [ClosePosition(trader) EXCEPT !.pc = "update"]
                /\ session' = MarkTradeTakenSession(session)
           ELSE /\ trader' = [trader EXCEPT !.pc = "update"]
                /\ session' = session
    /\ op' = "loop_monitor"
    /\ UNCHANGED <<buffer, detector, ENABLE_OR_FILTER, now, ret, calls,
                   conc, closed>>

\* main.on_tick(ts, bid, ask): the whole callback, run by the streaming
\* thread; ok is the answer of place_order
MainOnTick(ts, bid, ask, ok) ==
    \E b \in {AddTickBuf(buffer, ts, bid, ask)} :
    \E s \in {UpdateSession(session, ts, b, ENABLE_OR_FILTER)} :
    \E candles \in {GetLatest1m(b, 1)} :
        /\ ts > now
        /\ now' = ts
        /\ buffer' = b
        /\ IF ~CanTradeOf(s) \/ candles = <<>>
           THEN /\ session' = s
                /\ UNCHANGED <<detector, ret, calls, trader>>
           ELSE \E candle \in {candles[Len(candles)]} :
                \E r \in {ProcessCandleDet(detector, candle,
                                           s.or_high, s.or_low)} :
                LET t1 == [trader EXCEPT
                              !.passed = Append(@, candle.timestamp)]
                    order == r.ret # NoSignal /\ ~HasPosition(trader)
                IN  /\ detector' = r.d
                    /\ ret' = r.ret
                    /\ calls' = Append(calls, CallEntry(detector, r))
                    /\ trader' = IF order
                                 THEN PlaceOrder(t1, r.ret, ok,
                                                 s.current_date)
                                 ELSE t1
                    /\ session' = IF order /\ ok
                                  THEN MarkTradeTakenSession(s) ELSE s
        /\ op' = "main_on_tick"
        /\ UNCHANGED <<ENABLE_OR_FILTER, conc, closed>>

----------------------------------------------------------------------------
(* Inputs *)

\* bid/ask pairs of a tick; the mids are 2000.0, 2015.0 and 2020.0
Quotes == {<<19990, 20010>>, <<20140, 20160>>, <<20190, 20210>>}

\* quotes of the aggregator runs
BufQuotes == {<<19990, 20010>>, <<20140, 20160>>}

\* tick instants of the aggregator runs: 09:25:00 .. 09:35:30 of day 1
BufTickTimes ==
    {At(1, 9, m) + sec : m \in {25} \cup (30..BufLastMinute), sec \in {0, 30}}

\* tick instants of the session runs: one per minute of the opening range
SessTickTimes == {At(1, 9, m) : m \in 30..35}

\* wall-clock readings of update()
SessClockTimes ==
    {At(d, 9, 29) : d \in 1..MaxDays} \cup {At(d, 9, 30) : d \in 1..MaxDays}
        \cup {At(d, 9, 35) : d \in 1..MaxDays}
        \cup {At(d, 16, 0) : d \in 1..MaxDays}

\* last minute after 09:00 with a tick in the orchestrated runs
OrchLastMinute == 35 + SKIP_FIRST_N + 5

\* mid price of the ticks of minute m after 09:00: an opening range of
\* 2000.0 .. 2016.0, warm-up bars inside it, then a bar above the range,
\* a bar back at the OR high and bars rising away from it
OrchMid(m) ==
    IF m < 34 THEN (IF m % 2 = 0 THEN 20000 ELSE 20160)
    ELSE IF m < 35 + SKIP_FIRST_N THEN 20080
    ELSE IF m = 35 + SKIP_FIRST_N THEN 20180
    ELSE IF m = 36 + SKIP_FIRST_N THEN 20165
    ELSE 20190 + 5 * (m - (37 + SKIP_FIRST_N))

\* the tick tape of the orchestrated runs: timestamp, bid, ask
OrchTicks ==
    {<<At(d, 9, m) + sec, OrchMid(m) - 10, OrchMid(m) + 10>> :
        d \in 1..MaxDays, m \in 30..OrchLastMinute, sec \in {0, 30}}

\* last minute after 09:00 with a tick in the runs with a wide stop
CarryLastMinute == 35 + SKIP_FIRST_N + 4

\* mid price of the tick at second sec of minute m after 09:00: the same
\* opening range and warm-up bars, a bar above the range, a bar that
\* opens below the range and closes at the OR high (the retest, with a
\* low of 1999.0), a bar rising from 2018.0 to 2020.0, then 2020.0
CarryMid(m, sec) ==
    IF m < 34 THEN (IF m % 2 = 0 THEN 20000 ELSE 20160)
    ELSE IF m < 35 + SKIP_FIRST_N THEN 20080
    ELSE IF m = 35 + SKIP_FIRST_N THEN 20180
    ELSE IF m = 36 + SKIP_FIRST_N THEN (IF sec = 0 THEN 19990 ELSE 20165)
    ELSE IF m = 37 + SKIP_FIRST_N THEN (IF sec = 0 THEN 20180 ELSE 20200)
    ELSE 20200

\* the tick tape of those runs, the same on every day
CarryTicks ==
    {<<At(d, 9, m) + sec, CarryMid(m, sec) - 10, CarryMid(m, sec) + 10>> :
        d \in 1..MaxDays, m \in 30..CarryLastMinute, sec \in {0, 30}}

\* OR bounds handed to process_candle: high 2010.0, low 2000.0
DetORs == {<<20100, 20000>>}

\* open, high, low, close of the closed bars handed to process_candle
DetShapes ==
    {<<20050, 20060, 20040, 20050>>,   \* inside the opening range
     <<20090, 20125, 20085, 20120>>,   \* closes above OR high
     <<20120, 20122, 20100, 20110>>,   \* dips into the band around OR high
     <<20110, 20140, 20108, 20135>>,   \* displacement up
     <<20130, 20150, 20128, 20145>>,   \* gaps up
     <<20010, 20015, 19975, 19980>>,   \* closes below OR low
     <<19980, 20000, 19978, 19990>>,   \* rises into the band around OR low
     <<19972, 19974, 19950, 19955>>}   \* displacement down, gapping

\* bars of the confirmation runs, around an OR high of 2010.0 whose retest
\* band is 2009.5 .. 2010.5
ConfShapes ==
    {<<20050, 20060, 20040, 20050>>,   \* inside the opening range
     <<20090, 20125, 20085, 20120>>,   \* closes above OR high
     <<20120, 20122, 20100, 20110>>,   \* dips into the band around OR high
     <<20110, 20140, 20108, 20135>>,   \* displacement up
     <<20126, 20127, 20126, 20126>>,   \* small bar above the breakout bar
     <<20110, 20115, 20090, 20112>>,   \* wick through the band, close above
     <<20110, 20112, 20090, 20098>>}   \* through the band, close inside OR

\* bars of the scan runs: a breakout followed by bars that stay above the
\* retest band, with and without a gap between the first and the third
ScanShapes ==
    {<<20050, 20060, 20040, 20050>>,   \* inside the opening range
     <<20090, 20125, 20085, 20120>>,   \* closes above OR high
     <<20110, 20140, 20108, 20135>>,   \* above the band, no gap
     <<20130, 20150, 20128, 20145>>,   \* low above the breakout bar
     <<20145, 20160, 20142, 20155>>}   \* low above the bars before it

\* bars of the signal runs: setups whose retest bar lies below the entry,
\* at the entry and above it (long), and a short setup
SigShapes ==
    {<<20095, 20102, 20090, 20101>>,   \* closes just above OR high
     <<20106, 20108, 20105, 20107>>,   \* touches the top of the band
     <<20104, 20105, 20103, 20104>>,   \* in the band, above the breakout bar
     <<20104, 20105, 20103, 20105>>,   \* the same, closing at its high
     <<20010, 20015, 19975, 19980>>,   \* closes below OR low
     <<19980, 20000, 19978, 19990>>,   \* rises into the band around OR low
     <<19972, 19974, 19950, 19955>>}   \* displacement down, gapping

\* bars of the quiet-market runs: one tick per minute, so that a bar has
\* open = high = low = close, and one bar with a range
FlatShapes ==
    {<<20050, 20050, 20050, 20050>>,   \* inside the opening range
     <<20120, 20120, 20120, 20120>>,   \* above OR high
     <<20130, 20130, 20130, 20130>>,   \* higher
     <<20140, 20140, 20140, 20140>>,   \* higher again
     <<20130, 20150, 20128, 20145>>,   \* a bar with a range
     <<19950, 19950, 19950, 19950>>}   \* below OR low

\* ticks of the two-thread runs, as <<instant, bid, ask>>: in each minute
\* 09:30 .. 09:35 of day 1 one at second 0 (mid 2000.0) and one at second
\* 30 (mid 2015.0)
ConcTicks ==
    {<<At(1, 9, m), 19990, 20010>> : m \in 30..BufLastMinute} \cup
        {<<At(1, 9, m) + 30, 20140, 20160>> : m \in 30..BufLastMinute}

\* the queries of the query thread: the newest bar or the whole history,
\* and the opening-range bars of day 1
ConcQueries ==
    {[kind |-> "1m", arg |-> 1], [kind |-> "1m", arg |-> MAX_1M_CANDLES],
     [kind |-> "5m", arg |-> MAX_5M_CANDLES], [kind |-> "or", arg |-> 1]}

\* last minute past 09:00 with a tick in the capacity runs: one block more
\* than the aggregate history holds
CapLastMinute == 30 + 5 * (MAX_5M_CANDLES + 1)

CapTickTimes == {At(1, 9, m) : m \in 30..CapLastMinute}

\* the quote of the capacity runs
CapQuote == <<19990, 20010>>

\* last minute past 09:00 with a tick in the runs with a late tick over
\* several blocks: one block per bar the aggregate history holds
OrdLastMinute == 30 + 5 * MAX_5M_CANDLES

\* tick instants of those runs: 09:25 and 09:30 .. 09:40 of day 1
OrdTickTimes == {At(1, 9, m) : m \in {25} \cup (30..OrdLastMinute)}

\* last minute past 09:00 with a tick in the runs with unordered ticks
AnyLastMinute == 32

\* tick instants of those runs: 09:30:00 .. 09:32:30 of day 1
AnyTickTimes ==
    {At(1, 9, m) + sec : m \in 30..AnyLastMinute, sec \in {0, 30}}

\* the k-th bar after the OR lock closes k minutes after 09:35
BarTime(k) == At(1, 9, 35) + 60 * k

----------------------------------------------------------------------------
(* Initial state: the three objects as constructed *)

Init ==
    /\ buffer = BufferInit
    /\ session = SessionInit
    /\ detector = DetectorInit
    /\ ENABLE_OR_FILTER \in BOOLEAN
    /\ now = At(1, 0, 0)
    /\ op = "init"
    /\ ret = NoSignal
    /\ calls = <<>>
    /\ conc = ConcInit
    /\ closed = ClosedInit
    /\ trader = TraderInit

----------------------------------------------------------------------------
(* Operations *)

\* CandleBuffer.add_tick(timestamp, bid, ask)
AddTick(timestamp, bid, ask) ==
    /\ \/ buffer.current_minute = None
       \/ FloorMinute(timestamp) > buffer.current_minute
       \/ buffer.current_candle.volume < MaxVolume
    /\ buffer' = AddTickBuf(buffer, timestamp, bid, ask)
    /\ op' = "add_tick"
    /\ UNCHANGED <<session, detector, ENABLE_OR_FILTER, now, ret, calls,
                     conc, closed, trader>>

\* a tick stamped with the current wall-clock minute, first of its window
SessTick(timestamp, bid, ask) ==
    /\ timestamp >= now
    /\ \/ buffer.current_minute = None
       \/ FloorMinute(timestamp) > buffer.current_minute
    /\ buffer' = AddTickBuf(buffer, timestamp, bid, ask)
    /\ now' = timestamp
    /\ op' = "add_tick"
    /\ UNCHANGED <<session, detector, ENABLE_OR_FILTER, ret, calls,
                     conc, closed, trader>>

\* SessionStateMachine.update(candle_buffer) at wall-clock reading ny_time
Update(ny_time) ==
    /\ ny_time >= now
    /\ now' = ny_time
    /\ session' = UpdateSession(session, ny_time, buffer, ENABLE_OR_FILTER)
    /\ op' = "update"
    /\ UNCHANGED <<buffer, detector, ENABLE_OR_FILTER, ret, calls,
                     conc, closed, trader>>

\* SessionStateMachine.mark_trade_taken()
MarkTradeTaken ==
    /\ session' = MarkTradeTakenSession(session)
    /\ op' = "mark_trade_taken"
    /\ UNCHANGED <<buffer, detector, ENABLE_OR_FILTER, now, ret, calls,
                     conc, closed, trader>>

CanTrade == CanTradeOf(session)

\* EntryDetector.process_candle(candle, or_high, or_low)
ProcessCandle(candle, or_high, or_low) ==
    LET r == ProcessCandleDet(detector, candle, or_high, or_low)
    IN  /\ detector.candles_since_or_lock < MaxCalls
        /\ detector' = r.d
        /\ ret' = r.ret
        /\ calls' = Append(calls, [ret |-> r.ret,
                                   confirmed |-> r.d.confirmed,
                                   entry_signal |-> r.d.entry_signal,
                                   invalidated |->
                                       /\ detector.breakout_seen
                                       /\ ~detector.confirmed
                                       /\ ~r.d.breakout_seen])
        /\ op' = "process_candle"
        /\ UNCHANGED <<buffer, session, ENABLE_OR_FILTER, now,
                     conc, closed, trader>>

\* EntryDetector.reset()
Reset ==
    /\ detector' = DetectorInit
    /\ ret' = NoSignal
    /\ calls' = <<>>
    /\ op' = "reset"
    /\ UNCHANGED <<buffer, session, ENABLE_OR_FILTER, now,
                     conc, closed, trader>>

\* add_tick, line 78: the ingestion thread takes the lock; the tick is
\* stamped with the wall clock, later than the tick before it
IngestAcquire(timestamp, bid, ask) ==
    /\ conc.ingest_pc = "idle"
    /\ LockFree(conc)
    /\ timestamp > now
    /\ now' = timestamp
    /\ conc' = [conc EXCEPT
                   !.lock = "ingest",
                   !.ingest_pc = FirstStatement(buffer, timestamp),
                   !.tick = [timestamp |-> timestamp,
                             bid |-> bid, ask |-> ask]]
    /\ op' = "ingest_acquire"
    /\ UNCHANGED <<buffer, session, detector, ENABLE_OR_FILTER, ret,
                   calls, closed, trader>>

\* _close_1m_candle, line 125
IngestAppend ==
    /\ conc.ingest_pc = "append"
    /\ buffer' = Append1m(buffer)
    /\ conc' = [conc EXCEPT !.ingest_pc = "aggregate"]
    /\ op' = "ingest_append"
    /\ UNCHANGED <<session, detector, ENABLE_OR_FILTER, now, ret, calls,
                   closed, trader>>

\* _close_1m_candle, line 132
IngestAggregate ==
    /\ conc.ingest_pc = "aggregate"
    /\ buffer' = Update5mCandles(buffer)
    /\ conc' = [conc EXCEPT !.ingest_pc = "open_minute"]
    /\ op' = "ingest_aggregate"
    /\ UNCHANGED <<session, detector, ENABLE_OR_FILTER, now, ret, calls,
                   closed, trader>>

\* add_tick, line 95
IngestOpenMinute ==
    /\ conc.ingest_pc = "open_minute"
    /\ buffer' = [buffer EXCEPT
                     !.current_minute = FloorMinute(conc.tick.timestamp)]
    /\ conc' = [conc EXCEPT !.ingest_pc = "open_candle"]
    /\ op' = "ingest_open_minute"
    /\ UNCHANGED <<session, detector, ENABLE_OR_FILTER, now, ret, calls,
                   closed, trader>>

\* add_tick, lines 96-103
IngestOpenCandle ==
    LET mid == Mid(conc.tick.bid, conc.tick.ask)
    IN  /\ conc.ingest_pc = "open_candle"
        /\ buffer' = [buffer EXCEPT
                         !.current_candle =
                             Candle(FloorMinute(conc.tick.timestamp),
                                    mid, mid, mid, mid, 1)]
        /\ conc' = [conc EXCEPT !.ingest_pc = "release"]
        /\ op' = "ingest_open_candle"
        /\ UNCHANGED <<session, detector, ENABLE_OR_FILTER, now, ret, calls,
                       closed, trader>>

\* add_tick, line 106
IngestHigh ==
    /\ conc.ingest_pc = "high"
    /\ buffer' = [buffer EXCEPT
                     !.current_candle.high =
                         Max(@, Mid(conc.tick.bid, conc.tick.ask))]
    /\ conc' = [conc EXCEPT !.ingest_pc = "low"]
    /\ op' = "ingest_high"
    /\ UNCHANGED <<session, detector, ENABLE_OR_FILTER, now, ret, calls,
                   closed, trader>>

\* add_tick, line 107
IngestLow ==
    /\ conc.ingest_pc = "low"
    /\ buffer' = [buffer EXCEPT
                     !.current_candle.low =
                         Min(@, Mid(conc.tick.bid, conc.tick.ask))]
    /\ conc' = [conc EXCEPT !.ingest_pc = "close"]
    /\ op' = "ingest_low"
    /\ UNCHANGED <<session, detector, ENABLE_OR_FILTER, now, ret, calls,
                   closed, trader>>

\* add_tick, line 108
IngestClose ==
    /\ conc.ingest_pc = "close"
    /\ buffer' = [buffer EXCEPT
                     !.current_candle.close =
                         Mid(conc.tick.bid, conc.tick.ask)]
    /\ conc' = [conc EXCEPT !.ingest_pc = "volume"]
    /\ op' = "ingest_close"
    /\ UNCHANGED <<session, detector, ENABLE_OR_FILTER, now, ret, calls,
                   closed, trader>>

\* add_tick, line 109
IngestVolume ==
    /\ conc.ingest_pc = "volume"
    /\ buffer' = [buffer EXCEPT !.current_candle.volume = @ + 1]
    /\ conc' = [conc EXCEPT !.ingest_pc = "release"]
    /\ op' = "ingest_volume"
    /\ UNCHANGED <<session, detector, ENABLE_OR_FILTER, now, ret, calls,
                   closed, trader>>

\* add_tick leaves the with block: the call is complete
IngestRelease ==
    /\ conc.ingest_pc = "release"
    /\ conc' = [conc EXCEPT !.lock = "free", !.ingest_pc = "idle",
                            !.tick = NoTick, !.committed = buffer]
    /\ op' = "ingest_release"
    /\ UNCHANGED <<buffer, session, detector, ENABLE_OR_FILTER, now, ret,
                   calls, closed, trader>>

\* get_latest_1m / get_latest_5m / get_or_candles: the query thread takes
\* the lock (lines 179, 194, 209)
QueryAcquire(q) ==
    /\ conc.query_pc = "idle"
    /\ LockFree(conc)
    /\ conc' = [conc EXCEPT !.lock = "query", !.query_pc = "clamp",
                            !.query = q, !.n = None, !.result = <<>>]
    /\ op' = "query_acquire"
    /\ UNCHANGED <<buffer, session, detector, ENABLE_OR_FILTER, now, ret,
                   calls, closed, trader>>

\* the length test on the history (lines 180-181, 195-196)
QueryClamp ==
    /\ conc.query_pc = "clamp"
    /\ conc' = [conc EXCEPT !.query_pc = "copy",
                            !.n = ClampN(buffer, conc.query)]
    /\ op' = "query_clamp"
    /\ UNCHANGED <<buffer, session, detector, ENABLE_OR_FILTER, now, ret,
                   calls, closed, trader>>

\* the copy of the bars asked for (lines 182, 197, 214-224)
QueryCopy ==
    /\ conc.query_pc = "copy"
    /\ conc' = [conc EXCEPT !.query_pc = "release",
                            !.result = CopyBars(buffer, conc.query, conc.n)]
    /\ op' = "query_copy"
    /\ UNCHANGED <<buffer, session, detector, ENABLE_OR_FILTER, now, ret,
                   calls, closed, trader>>

\* the query leaves the with block and returns
QueryRelease ==
    /\ conc.query_pc = "release"
    /\ conc' = [conc EXCEPT !.lock = "free", !.query_pc = "idle",
                            !.query = NoQuery, !.n = None, !.result = <<>>]
    /\ op' = "query_return"
    /\ UNCHANGED <<buffer, session, detector, ENABLE_OR_FILTER, now, ret,
                   calls, closed, trader>>

\* add_tick(timestamp, bid, ask) with the call and its effect on the two
\* histories logged: conc.tick holds the arguments, closed the bars appended
AddTickLogged(timestamp, bid, ask) ==
    LET b == AddTickBuf(buffer, timestamp, bid, ask)
        new_1m == b.candles_1m # buffer.candles_1m
        new_5m == b.candles_5m # buffer.candles_5m
    IN  /\ \/ buffer.current_minute = None
           \/ FloorMinute(timestamp) > buffer.current_minute
           \/ buffer.current_candle.volume < MaxVolume
        /\ buffer' = b
        /\ conc' = [conc EXCEPT !.tick = [timestamp |-> timestamp,
                                          bid |-> bid, ask |-> ask]]
        /\ closed' =
               [m1 |-> IF new_1m
                       THEN Append(closed.m1, b.candles_1m[Len(b.candles_1m)])
                       ELSE closed.m1,
                m5 |-> IF new_5m
                       THEN Append(closed.m5, b.candles_5m[Len(b.candles_5m)])
                       ELSE closed.m5]
        /\ op' = "add_tick"
        /\ UNCHANGED <<session, detector, ENABLE_OR_FILTER, now, ret, calls,
                       trader>>

----------------------------------------------------------------------------
(* Specifications *)

BufTick == \E t \in BufTickTimes, q \in BufQuotes : AddTick(t, q[1], q[2])

NextBuf == BufTick

InitBuf == Init /\ ENABLE_OR_FILTER

SpecBuf == InitBuf /\ [][NextBuf]_vars

SessTickStep == \E t \in SessTickTimes, q \in Quotes : SessTick(t, q[1], q[2])

UpdateStep == \E t \in SessClockTimes : Update(t)

NextSess == SessTickStep \/ UpdateStep \/ MarkTradeTaken

SpecSess == Init /\ [][NextSess]_vars

\* the caller keeps calling update(): a call at the present clock reading
\* that would change the session is eventually made
SpecSessFair == SpecSess /\ WF_vars(Update(now))

ProcessStep ==
    \E sh \in DetShapes, o \in DetORs :
        ProcessCandle(Candle(BarTime(detector.candles_since_or_lock + 1),
                             sh[1], sh[2], sh[3], sh[4], 1),
                      o[1], o[2])

NextDet == ProcessStep \/ Reset

InitDet == Init /\ ENABLE_OR_FILTER

SpecDet == InitDet /\ [][NextDet]_vars

ConfStep ==
    \E sh \in ConfShapes, o \in DetORs :
        ProcessCandle(Candle(BarTime(detector.candles_since_or_lock + 1),
                             sh[1], sh[2], sh[3], sh[4], 1),
                      o[1], o[2])

NextConf == ConfStep \/ Reset

\* the detector fed with the bars of the confirmation runs
SpecConf == InitDet /\ [][NextConf]_vars

ScanStep ==
    \E sh \in ScanShapes, o \in DetORs :
        ProcessCandle(Candle(BarTime(detector.candles_since_or_lock + 1),
                             sh[1], sh[2], sh[3], sh[4], 1),
                      o[1], o[2])

NextScan == ScanStep \/ Reset

\* the detector fed with the bars of the scan runs
SpecScan == InitDet /\ [][NextScan]_vars

SigStep ==
    \E sh \in SigShapes, o \in DetORs :
        ProcessCandle(Candle(BarTime(detector.candles_since_or_lock + 1),
                             sh[1], sh[2], sh[3], sh[4], 1),
                      o[1], o[2])

NextSig == SigStep \/ Reset

\* the detector fed with the bars of the signal runs
SpecSig == InitDet /\ [][NextSig]_vars

FlatStep ==
    \E sh \in FlatShapes, o \in DetORs :
        ProcessCandle(Candle(BarTime(detector.candles_since_or_lock + 1),
                             sh[1], sh[2], sh[3], sh[4], 1),
                      o[1], o[2])

NextFlat == FlatStep \/ Reset

\* the detector fed with the bars of the quiet-market runs
SpecFlat == InitDet /\ [][NextFlat]_vars

IngestStart == \E k \in ConcTicks : IngestAcquire(k[1], k[2], k[3])

QueryStart == \E q \in ConcQueries : QueryAcquire(q)

NextConc ==
    \/ IngestStart
    \/ IngestAppend
    \/ IngestAggregate
    \/ IngestOpenMinute
    \/ IngestOpenCandle
    \/ IngestHigh
    \/ IngestLow
    \/ IngestClose
    \/ IngestVolume
    \/ IngestRelease
    \/ QueryStart
    \/ QueryClamp
    \/ QueryCopy
    \/ QueryRelease

SpecConc == InitBuf /\ [][NextConc]_vars

\* one tick per minute, in order, at most one minute without a tick
CapTickStep ==
    \E t \in CapTickTimes :
        /\ \/ buffer.current_minute = None
           \/ /\ t > buffer.current_minute
              /\ t <= buffer.current_minute + 2 * 60
        /\ AddTickLogged(t, CapQuote[1], CapQuote[2])

NextCap == CapTickStep

SpecCap == InitBuf /\ [][NextCap]_vars

\* tape windows before instant t that never received a first tick
OrdSkipped(t) ==
    {u \in OrdTickTimes : u < t} \
        ({closed.m1[i].timestamp : i \in DOMAIN closed.m1}
             \cup {buffer.current_minute})

\* bars, closed or open, into which a second tick was merged
OrdMerged ==
    {i \in DOMAIN closed.m1 : closed.m1[i].volume > 1} \cup
        (IF buffer.current_candle # NoCandle
             /\ buffer.current_candle.volume > 1 THEN {0} ELSE {})

\* ticks over several blocks: at most one tape window is left without a
\* tick and at most one tick is stamped in the open window or earlier
OrdTickStep ==
    \E t \in OrdTickTimes :
        /\ IF buffer.current_minute = None \/ t > buffer.current_minute
           THEN Cardinality(OrdSkipped(t)) <= 1
           ELSE OrdMerged = {}
        /\ AddTickLogged(t, CapQuote[1], CapQuote[2])

NextOrd == OrdTickStep

SpecOrd == InitBuf /\ [][NextOrd]_vars

\* ticks in any order, also stamped earlier than the open window
AnyTickStep ==
    \E t \in AnyTickTimes, q \in BufQuotes : AddTickLogged(t, q[1], q[2])

NextTick == AnyTickStep

SpecTick == InitBuf /\ [][NextTick]_vars

\* the stream delivers the tape in order: no tick of the tape lies
\* between the latest tick and the one delivered
NextOnTape(timestamp) ==
    \A k \in OrchTicks : ~(now < k[1] /\ k[1] < timestamp)

\* as NextOnTape, but a tick in the middle of a minute may be missing
NextMinuteOnTape(timestamp) ==
    \A k \in OrchTicks :
        ~(now < k[1] /\ k[1] < timestamp /\ k[1] = FloorMinute(k[1]))

\* the loop sleeps one second per round and the ticks of the tape are
\* thirty seconds apart: the loop polls at least once between two ticks,
\* at any point of its round
LiveTickStep ==
    \E k \in OrchTicks :
        /\ NextOnTape(k[1])
        /\ trader.polled
        /\ LiveOnTick(k[1], k[2], k[3])

LoopPollStep == \E ok \in BOOLEAN : LoopPoll(ok)

LoopMonitorStep == \E broker_closed \in BOOLEAN : LoopMonitor(broker_closed)

NextLive == LiveTickStep \/ LoopUpdate \/ LoopPollStep \/ LoopMonitorStep

\* LiveTrader: the streaming thread and the event loop
SpecLive == Init /\ [][NextLive]_vars

\* a sparse feed and a loop that may be late: one tick per minute on day 1,
\* delivered at any point of the loop round, also several in a row
LagTicks ==
    {k \in OrchTicks : k[1] = FloorMinute(k[1]) /\ DateOf(k[1]) = 1}

LagTickStep ==
    \E k \in LagTicks :
        NextMinuteOnTape(k[1]) /\ LiveOnTick(k[1], k[2], k[3])

NextLag == LagTickStep \/ LoopUpdate \/ LoopPollStep \/ LoopMonitorStep

\* LiveTrader without an assumption on the pace of the loop
SpecLag == Init /\ [][NextLag]_vars

CarryTickStep ==
    \E k \in CarryTicks :
        /\ \A j \in CarryTicks : ~(now < j[1] /\ j[1] < k[1])
        /\ trader.polled
        /\ LiveOnTick(k[1], k[2], k[3])

NextCarry == CarryTickStep \/ LoopUpdate \/ LoopPollStep \/ LoopMonitorStep

\* LiveTrader on a tape whose signal has a wide stop, so that the
\* position can stay open into the next day
SpecCarry == Init /\ [][NextCarry]_vars

\* the tape fed to main.py: every minute opens with a tick; a second tick
\* inside the minute comes only once the first day's range is complete
MainTicks ==
    {k \in OrchTicks :
        \/ k[1] = FloorMinute(k[1])
        \/ DateOf(k[1]) = 1 /\ TimeOf(k[1]) >= TimeHM(9, 35)}

MainTickStep ==
    \E k \in MainTicks, ok \in BOOLEAN :
        NextMinuteOnTape(k[1]) /\ MainOnTick(k[1], k[2], k[3], ok)

NextMain == MainTickStep

\* main.py: everything runs in the tick callback
SpecMain == Init /\ [][NextMain]_vars

----------------------------------------------------------------------------
(* Properties *)

\* indices of the calls since reset() that returned a signal
SignalCalls == {i \in DOMAIN calls : calls[i].ret # NoSignal}

\* call i is the one on which the detector confirmed
IsConfirmingCall(i) ==
    calls[i].confirmed /\ (i = 1 \/ ~calls[i - 1].confirmed)

\* C1: between two reset() calls the confirmed signal is returned by
\* exactly one process_candle call; every other call returns null.
C1_DeliveredExactlyOnce ==
    /\ Cardinality(SignalCalls) <= 1
    /\ detector.confirmed => Cardinality(SignalCalls) = 1

\* C2: after the confirming call, the first subsequent call returns the
\* signal computed at confirmation, field by field, and every later call
\* until reset() returns null, whatever bar is passed.
C2_CachedOnceThenNull ==
    \A i \in DOMAIN calls :
        IsConfirmingCall(i) =>
            /\ calls[i].entry_signal # NoSignal
            /\ \A j \in DOMAIN calls :
                   j > i =>
                       /\ calls[j].entry_signal = calls[i].entry_signal
                       /\ calls[j].ret = IF j = i + 1
                                         THEN calls[i].entry_signal
                                         ELSE NoSignal

C2_Witness ==
    \E i \in DOMAIN calls :
        /\ IsConfirmingCall(i)
        /\ Len(calls) >= i + 2
        /\ calls[i + 1].ret = calls[i].entry_signal
        /\ calls[i + 2].ret = NoSignal

\* C3: can_trade() is true exactly when the state is TRADING, no trade
\* has been taken and both OR bounds are set; it is false as soon as one
\* of the three fails.
C3_CanTradeIff ==
    /\ CanTrade =>
           /\ session.state = "POST_OR_TRADING"
           /\ session.trade_taken = FALSE
           /\ session.or_high # None /\ session.or_low # None
    /\ session.state # "POST_OR_TRADING" => ~CanTrade
    /\ session.trade_taken => ~CanTrade
    /\ (session.or_high = None \/ session.or_low = None) => ~CanTrade
    /\ (/\ session.state = "POST_OR_TRADING"
        /\ ~session.trade_taken
        /\ session.or_high # None
        /\ session.or_low # None) => CanTrade

C3_Witness ==
    /\ CanTrade
    /\ op = "update"
    /\ session.or_high > session.or_low

Rank(state) ==
    CASE state = "PRE_OR" -> 0
      [] state = "OR_BUILDING" -> 1
      [] state = "OR_LOCKED" -> 2
      [] state = "POST_OR_TRADING" -> 3
      [] state = "SESSION_CLOSED" -> 4

\* C4: while the stored date stays the same, update() and
\* mark_trade_taken() never move the session to an earlier state, and
\* CLOSED is left only together with a change of date.
C4_MonotonicPerDate ==
    [][/\ session'.current_date = session.current_date =>
              Rank(session'.state) >= Rank(session.state)
       /\ (session.state = "SESSION_CLOSED"
              /\ session'.state # "SESSION_CLOSED") =>
              session'.current_date # session.current_date]_vars

\* the whole lifecycle of one date has been walked through
C4_Witness ==
    /\ session.state = "SESSION_CLOSED"
    /\ ~session.trade_taken
    /\ session.or_high # None
    /\ ENABLE_OR_FILTER
    /\ session.or_high - session.or_low >= MIN_OR_RANGE
    /\ session.or_high - session.or_low <= MAX_OR_RANGE

\* C5: mark_trade_taken() leaves the session CLOSED with trade_taken set
\* whatever the state was, a repeated call changes nothing, and while the
\* date stays the same trade_taken stays set and can_trade() stays false.
C5_MarkTradeTaken ==
    [][/\ op' = "mark_trade_taken" =>
              /\ session'.state = "SESSION_CLOSED"
              /\ session'.trade_taken
              /\ session.trade_taken => session' = session
       /\ (session.trade_taken
              /\ session'.current_date = session.current_date) =>
              /\ session'.trade_taken
              /\ session'.state = "SESSION_CLOSED"
              /\ ~CanTradeOf(session')]_vars

\* an update() on the date of a trade taken after the OR lock
C5_Witness ==
    /\ session.trade_taken
    /\ op = "update"
    /\ session.or_high # None
    /\ session.current_date = DateOf(now)

\* C6: once set, or_high and or_low keep their values through every
\* update() and mark_trade_taken() for which the stored date is unchanged.
C6_BoundsSetOncePerDate ==
    [][(session.or_high # None
           /\ session'.current_date = session.current_date) =>
           /\ session'.or_high = session.or_high
           /\ session'.or_low = session.or_low]_vars

\* bounds locked earlier are still there at the session end
C6_Witness ==
    /\ session.or_high # None
    /\ session.or_low # None
    /\ op = "update"
    /\ TimeOf(now) >= TimeHM(16, 0)
    /\ session.state = "SESSION_CLOSED"

\* C7: an update() that observes another date than the stored one leaves
\* nothing of the previous date: bounds, OR times and trade_taken are
\* cleared, and the state is what PRE_OPEN gives on the new date.
C7_RolloverReplacesAll ==
    [][(op' = "update" /\ session'.current_date # session.current_date) =>
           /\ session'.current_date = DateOf(now')
           /\ session'.or_high = None
           /\ session'.or_low = None
           /\ session'.or_open_time = None
           /\ session'.or_close_time = None
           /\ session'.trade_taken = FALSE
           /\ session'.state = IF TimeOf(now') >= TimeHM(9, 30)
                               THEN "OR_BUILDING" ELSE "PRE_OR"]_vars

\* the second date has been entered and the first date's bar is still held
C7_Witness ==
    /\ session.current_date = 2
    /\ op = "update"
    /\ session.state \in {"PRE_OR", "OR_BUILDING"}
    /\ session.or_high = None
    /\ ~session.trade_taken
    /\ buffer.candles_5m # <<>>

\* the aggregate bars of date d that start in the opening range
ORBars(b, d) ==
    {i \in DOMAIN b.candles_5m :
        /\ DateOf(b.candles_5m[i].timestamp) = d
        /\ TimeOf(b.candles_5m[i].timestamp) >= TimeHM(9, 30)
        /\ TimeOf(b.candles_5m[i].timestamp) < TimeHM(9, 35)}

\* C8: in RANGE_BUILDING an update() before 09:35 changes nothing; at or
\* after 09:35 it sets or_high / or_low to the max high / min low of the
\* date's opening-range aggregate bars and leaves RANGE_BUILDING; with no
\* such bar it changes nothing, so the lock is retried.
C8_LockFromORBars ==
    [][(/\ op' = "update"
        /\ session.state = "OR_BUILDING"
        /\ session.current_date = DateOf(now')) =>
           LET bars == ORBars(buffer, DateOf(now'))
               highs == {buffer.candles_5m[i].high : i \in bars}
               lows == {buffer.candles_5m[i].low : i \in bars}
           IN  IF TimeOf(now') < TimeHM(9, 35) \/ bars = {}
               THEN session' = session
               ELSE /\ session'.or_high \in highs
                    /\ \A h \in highs : h <= session'.or_high
                    /\ session'.or_low \in lows
                    /\ \A l \in lows : l >= session'.or_low
                    /\ session'.state # "OR_BUILDING"]_vars

\* the lock has just succeeded
C8_Witness ==
    /\ op = "update"
    /\ session.state = "OR_LOCKED"
    /\ ORBars(buffer, session.current_date) # {}
    /\ session.or_high > session.or_low

\* C9: with the filter enabled, bounds whose range is below MIN_OR_RANGE
\* or above MAX_OR_RANGE are only ever held by a CLOSED session, so the
\* lock went straight to CLOSED and can_trade() is false while they last.
C9_FilteredRangeCloses ==
    (/\ ENABLE_OR_FILTER
     /\ session.or_high # None
     /\ \/ session.or_high - session.or_low < MIN_OR_RANGE
        \/ session.or_high - session.or_low > MAX_OR_RANGE) =>
        /\ session.state = "SESSION_CLOSED"
        /\ ~CanTrade

\* a range above the maximum closed the session without a trade
C9_Witness ==
    /\ ENABLE_OR_FILTER
    /\ session.or_high # None
    /\ session.or_high - session.or_low > MAX_OR_RANGE
    /\ session.state = "SESSION_CLOSED"
    /\ ~session.trade_taken
    /\ op = "update"

\* the closed base bars held whose timestamp lies in the block of bar a
BlockBars(b, a) ==
    LET InBlock(c) == /\ c.timestamp >= a.timestamp
                      /\ c.timestamp < a.timestamp + 5 * 60
    IN  SelectSeq(b.candles_1m, InBlock)

\* C10: an aggregate bar appended to the history is built from exactly
\* the closed base bars of its own block [T, T + 5 minutes): first open,
\* last close, max high, min low and the sum of their volumes.
C10_AggregateFromOwnBlock ==
    [][buffer'.candles_5m # buffer.candles_5m =>
           LET a == buffer'.candles_5m[Len(buffer'.candles_5m)]
               base == BlockBars(buffer', a)
           IN  /\ base # <<>>
               /\ a.open = base[1].open
               /\ a.close = base[Len(base)].close
               /\ a.high = MaxHigh(base)
               /\ a.low = MinLow(base)
               /\ a.volume = SumVolume(base)]_vars

\* the stage of the forward state machine the detector is in
Stage(d) ==
    IF d.confirmed THEN "CONFIRMED"
    ELSE IF d.retest_active THEN "CONFIRMING"
    ELSE IF d.breakout_seen THEN "RETEST_PENDING"
    ELSE "SEARCHING_BREAKOUT"

\* C11: a non-null entry signal exists only if a breakout is recorded,
\* with its time and direction set, in the detector and in the signal; the
\* detector is CONFIRMING (retest active) only if a breakout and a retest
\* bar are both recorded.
C11_SignalNeedsBreakout ==
    /\ detector.entry_signal # NoSignal =>
           /\ detector.breakout_seen
           /\ detector.breakout_time # None
           /\ detector.breakout_direction \in {"long", "short"}
           /\ detector.entry_signal.breakout_time = detector.breakout_time
           /\ detector.entry_signal.direction = detector.breakout_direction
    /\ ret # NoSignal =>
           /\ ret.breakout_time # None
           /\ ret.direction \in {"long", "short"}
    /\ detector.retest_active =>
           /\ detector.breakout_seen
           /\ detector.breakout_time # None
           /\ detector.breakout_direction \in {"long", "short"}
           /\ detector.retest_candle # NoCandle

\* a Model 1 signal is held while the retest is still active
C11_Witness ==
    /\ detector.entry_signal # NoSignal
    /\ detector.entry_signal.model = 1
    /\ detector.retest_active
    /\ detector.retest_candle # NoCandle
    /\ ret = detector.entry_signal

StageRank(d) ==
    CASE Stage(d) = "SEARCHING_BREAKOUT" -> 0
      [] Stage(d) = "RETEST_PENDING" -> 1
      [] Stage(d) = "CONFIRMING" -> 2
      [] Stage(d) = "CONFIRMED" -> 3

\* what a process_candle call newly recorded
RecordedBreakout(d, e) == ~d.breakout_seen /\ e.breakout_seen
RecordedRetest(d, e) == d.retest_candle = NoCandle /\ e.retest_candle # NoCandle
RecordedConfirmation(d, e) == ~d.confirmed /\ e.confirmed

\* C12: one process_candle call records at most one of breakout, retest
\* and confirmation and moves forward by one stage only (RETEST_PENDING to
\* CONFIRMED being the Model 2 step), so that breakout_time < retest_time
\* < entry_time for Model 1 and breakout_time < entry_time for Model 2;
\* the only backward move is the rollback to SEARCHING_BREAKOUT.
C12_ForwardProgression ==
    [][op' = "process_candle" =>
           /\ ~(RecordedBreakout(detector, detector')
                  /\ RecordedRetest(detector, detector'))
           /\ ~(RecordedBreakout(detector, detector')
                  /\ RecordedConfirmation(detector, detector'))
           /\ ~(RecordedRetest(detector, detector')
                  /\ RecordedConfirmation(detector, detector'))
           /\ StageRank(detector') > StageRank(detector) =>
                  \/ StageRank(detector') = StageRank(detector) + 1
                  \/ /\ Stage(detector) = "RETEST_PENDING"
                     /\ Stage(detector') = "CONFIRMED"
                     /\ detector'.entry_signal.model = 2
           /\ StageRank(detector') < StageRank(detector) =>
                  Stage(detector') = "SEARCHING_BREAKOUT"
           /\ detector'.entry_signal # NoSignal =>
                  LET sig == detector'.entry_signal
                  IN  /\ sig.breakout_time # None
                      /\ sig.model = 1 =>
                             /\ sig.retest_time # None
                             /\ sig.breakout_time < sig.retest_time
                             /\ sig.retest_time < sig.entry_time
                      /\ sig.model = 2 =>
                             sig.breakout_time < sig.entry_time]_vars

\* a Model 2 confirmation straight from RETEST_PENDING
C12_Witness ==
    /\ op = "process_candle"
    /\ detector.confirmed
    /\ detector.entry_signal.model = 2
    /\ ~detector.retest_active
    /\ detector.entry_signal.breakout_time < detector.entry_signal.entry_time

\* this process_candle step rolled a recorded breakout back
IsInvalidation(d, e) ==
    d.breakout_seen /\ ~d.confirmed /\ ~e.breakout_seen

\* C13: an invalidation (in RETEST_PENDING or CONFIRMING) clears the
\* breakout, retest, confirmation and signal fields and leaves the sliding
\* window (with the invalidating bar appended), the bars-since-lock
\* counter and the OR bounds as the call had them; no warm-up restarts.
C13_InvalidationFrame ==
    [][(op' = "process_candle" /\ IsInvalidation(detector, detector')) =>
           LET bar == detector'.candle_history[Len(detector'.candle_history)]
           IN  /\ detector'.breakout_seen = FALSE
               /\ detector'.breakout_direction = "none"
               /\ detector'.breakout_time = None
               /\ detector'.breakout_candle = NoBreakout
               /\ detector'.retest_active = FALSE
               /\ detector'.retest_candle = NoCandle
               /\ detector'.retest_start_idx = None
               /\ detector'.confirmed = FALSE
               /\ detector'.invalidated = FALSE
               /\ detector'.entry_signal = NoSignal
               /\ detector'.signal_delivered = FALSE
               /\ ret' = NoSignal
               /\ detector'.candle_history # <<>>
               /\ bar.timestamp = BarTime(detector'.candles_since_or_lock)
               /\ detector'.candle_history =
                      HistoryAppend(detector.candle_history, bar)
               /\ detector'.candles_since_or_lock =
                      detector.candles_since_or_lock + 1
               /\ detector'.candles_since_or_lock > SKIP_FIRST_N
               /\ detector'.or_high = detector.or_high
               /\ detector'.or_low = detector.or_low
               /\ detector'.or_range = detector.or_range]_vars

\* the call just made rolled back a pattern that was in CONFIRMING: the
\* window still holds the breakout, retest and invalidating bars
C13_Witness ==
    /\ op = "process_candle"
    /\ calls # <<>>
    /\ calls[Len(calls)].invalidated
    /\ Stage(detector) = "SEARCHING_BREAKOUT"
    /\ detector.candles_since_or_lock >= SKIP_FIRST_N + 3
    /\ Len(detector.candle_history) >= SKIP_FIRST_N + 3
    /\ LET h == detector.candle_history
           n == Len(h)
       IN  /\ h[n - 2].close > detector.or_high
           /\ h[n - 1].close >= detector.or_high
           /\ h[n - 1].low <= detector.or_high + Tol(detector)
           /\ h[n].low < detector.or_high - Tol(detector)

\* the bar a process_candle step was called with: the last of the window
BarOf(e) == e.candle_history[Len(e.candle_history)]

\* Scenario A, bar by bar: what a call makes of the breakout bar, of the
\* retest bar and of the displacement bar, with OR 2010.0 / 2000.0
ScenarioA_Stages ==
    LET d == detector
        e == detector'
        bar == BarOf(e)
        prev == d.candle_history[Len(d.candle_history)]
    IN  /\ (/\ d.candles_since_or_lock >= SKIP_FIRST_N
            /\ Stage(d) = "SEARCHING_BREAKOUT"
            /\ bar.close = 2012 * 10) =>
               /\ Stage(e) = "RETEST_PENDING"
               /\ e.breakout_direction = "long"
               /\ e.breakout_time = bar.timestamp
               /\ ret' = NoSignal
        /\ (/\ Stage(d) = "RETEST_PENDING"
            /\ d.breakout_direction = "long"
            /\ bar.low <= 20105 /\ bar.high >= 20095
            /\ bar.close >= 2010 * 10) =>
               /\ Stage(e) = "CONFIRMING"
               /\ e.retest_candle = bar
               /\ ret' = NoSignal
        /\ (/\ Stage(d) = "CONFIRMING"
            /\ d.breakout_direction = "long"
            /\ bar.close = 20135
            /\ bar.close > d.retest_candle.high + 5
            /\ bar.low >= 20095
            /\ bar.close > prev.close
            /\ bar.high > prev.high
            /\ 10 * Abs(bar.close - bar.open) >= 3 * (bar.high - bar.low)
            /\ d.retest_candle.low < bar.close) =>
               /\ Stage(e) = "CONFIRMED"
               /\ ret' # NoSignal
               /\ ret' = e.entry_signal
               /\ ret'.model = 1
               /\ ret'.direction = "long"
               /\ ret'.entry_price = bar.close
               /\ ret'.entry_time = bar.timestamp
               /\ ret'.sl = d.retest_candle.low * FINE
               /\ ret'.tp = (bar.close
                               + 2 * (bar.close - d.retest_candle.low)) * FINE

\* the Scenario A signal has been returned by at most one call
ScenarioA_Once ==
    (/\ detector'.entry_signal # NoSignal
     /\ detector'.entry_signal.model = 1
     /\ detector'.entry_signal.direction = "long") =>
        Cardinality({i \in DOMAIN calls' : calls'[i].ret # NoSignal}) <= 1

\* C14: Scenario A. With OR high 2010.0 and low 2000.0, after the warm-up
\* a bar closing at 2012 records a long breakout and returns no signal; a
\* bar touching [2009.5, 2010.5] without closing below 2010 records the
\* retest and returns no signal; the next bar closing at 2013.5 above
\* retest.high + 0.5 with close > prev.close, high > prev.high and body
\* ratio >= 0.30 yields the signal model = 1, direction = long, stop =
\* retest.low, target = entry + 2 x (entry - stop), returned once.
C14_ScenarioA ==
    [][op' = "process_candle" => ScenarioA_Stages /\ ScenarioA_Once]_vars

\* the calls since reset() that rolled a breakout back
Invalidations == {i \in DOMAIN calls : calls[i].invalidated}

\* Scenario B, first half: the rollback out of RETEST_PENDING
ScenarioB_Rollback ==
    (/\ Stage(detector) = "RETEST_PENDING"
     /\ detector.breakout_direction = "long"
     /\ BarOf(detector').close < detector.or_high) =>
        /\ Stage(detector') = "SEARCHING_BREAKOUT"
        /\ detector'.breakout_direction = "none"
        /\ ret' = NoSignal

\* the bar of this call is recorded as a fresh long breakout
FreshLongBreakout ==
    /\ Stage(detector') = "RETEST_PENDING"
    /\ detector'.breakout_direction = "long"
    /\ detector'.breakout_time = BarOf(detector').timestamp
    /\ detector'.breakout_candle.candle = BarOf(detector')

CompleteStates ==
    {conc.committed} \cup
        IF conc.ingest_pc = "idle" THEN {}
        ELSE {AddTickBuf(conc.committed, conc.tick.timestamp,
                         conc.tick.bid, conc.tick.ask)}

\* C16: under any interleaving of the ingestion thread's add_tick with
\* the query thread's get_latest_1m, get_latest_5m or get_or_candles,
\* every query returns what it returns on the histories as they stand
\* between two complete add_tick calls, never a bar still in progress;
\* the two threads never hold the lock together, and a complete add_tick
\* leaves what add_tick leaves when it runs alone.
C16_QueriesSeeCompleteCalls ==
    [][/\ op' = "query_copy" =>
              /\ \E b \in CompleteStates :
                     conc'.result = QueryResult(b, conc.query)
              /\ \A i \in DOMAIN conc'.result :
                     conc'.result[i].timestamp < buffer.current_minute
       /\ op' = "ingest_release" =>
              buffer = AddTickBuf(conc.committed, conc.tick.timestamp,
                                  conc.tick.bid, conc.tick.ask)
       /\ ~(conc'.ingest_pc # "idle" /\ conc'.query_pc # "idle")]_vars

\* a query has copied base bars while the history also holds an aggregate
\* bar, both left by complete add_tick calls
C16_Witness ==
    /\ op = "query_copy"
    /\ conc.query.kind = "1m"
    /\ Len(conc.result) >= 2
    /\ buffer.candles_5m # <<>>
    /\ conc.committed = buffer

\* C17: add_tick closes the in-progress bar and opens a new one with
\* O = H = L = C = mid and volume 1 exactly when the tick's minute window
\* is later than the window of the in-progress bar; a tick whose window
\* is the open one or an earlier one is merged into the in-progress bar
\* (high and low extended, close = mid, volume + 1) and leaves every
\* closed bar as it was.
C17_CloseOnLaterWindowOnly ==
    [][(op' = "add_tick" /\ buffer.current_candle # NoCandle) =>
           LET tick == conc'.tick
               mid == (tick.bid + tick.ask) \div 2
               window == tick.timestamp - (tick.timestamp % 60)
               cur == buffer.current_candle
               hist == buffer'.candles_1m
           IN  IF window > cur.timestamp
               THEN /\ hist # <<>>
                    /\ hist[Len(hist)] = cur
                    /\ closed'.m1 = Append(closed.m1, cur)
                    /\ buffer'.current_minute = window
                    /\ buffer'.current_candle =
                           [timestamp |-> window, open |-> mid, high |-> mid,
                            low |-> mid, close |-> mid, volume |-> 1]
               ELSE /\ buffer'.candles_1m = buffer.candles_1m
                    /\ buffer'.candles_5m = buffer.candles_5m
                    /\ closed' = closed
                    /\ buffer'.current_minute = buffer.current_minute
                    /\ buffer'.current_candle =
                           [timestamp |-> cur.timestamp, open |-> cur.open,
                            high |-> IF mid > cur.high THEN mid ELSE cur.high,
                            low |-> IF mid < cur.low THEN mid ELSE cur.low,
                            close |-> mid,
                            volume |-> cur.volume + 1]]_vars

\* a tick stamped in an earlier window has been merged into the open bar
\* and raised its high
C17_Witness ==
    /\ op = "add_tick"
    /\ conc.tick.timestamp + 60 <= buffer.current_minute
    /\ buffer.current_candle.volume >= 2
    /\ buffer.current_candle.high > buffer.current_candle.open
    /\ buffer.current_candle.close = buffer.current_candle.high
    /\ buffer.candles_1m # <<>>

\* C18: when one or more base windows between two ticks receive no tick,
\* the gap is filled, so the closed base bars held cover consecutive
\* windows, none missing between the first and the last.
C18_NoWindowMissing ==
    \A i \in 1..(Len(buffer.candles_1m) - 1) :
        buffer.candles_1m[i + 1].timestamp
            = buffer.candles_1m[i].timestamp + 60

\* the last Min(n, Len(h)) elements of h, from s on
IsNewestSuffix(s, h, n) ==
    LET k == IF n <= 0 THEN 0 ELSE IF n < Len(h) THEN n ELSE Len(h)
    IN  /\ Len(s) = k
        /\ \A i \in 1..k : s[i] = h[Len(h) - k + i]

\* C19: the base history never holds more than MAX_1M_CANDLES bars and
\* the aggregate history never more than MAX_5M_CANDLES; each is the
\* most recent suffix of all bars ever appended to it, so an append to a
\* full history evicts exactly the oldest bar.
C19_BoundedNewestSuffix ==
    /\ Len(buffer.candles_1m) <= MAX_1M_CANDLES
    /\ Len(buffer.candles_5m) <= MAX_5M_CANDLES
    /\ IsNewestSuffix(buffer.candles_1m, closed.m1, MAX_1M_CANDLES)
    /\ IsNewestSuffix(buffer.candles_5m, closed.m5, MAX_5M_CANDLES)

\* both histories are full and have given up bars
C19_Witness ==
    /\ Len(closed.m1) > MAX_1M_CANDLES + 1
    /\ Len(closed.m5) > MAX_5M_CANDLES
    /\ Len(buffer.candles_1m) = MAX_1M_CANDLES
    /\ Len(buffer.candles_5m) = MAX_5M_CANDLES
    /\ buffer.candles_5m[1] = closed.m5[Len(closed.m5) - MAX_5M_CANDLES + 1]

\* the values of n tried on get_latest_1m and get_latest_5m
QueryNs == (0 - 1)..(MAX_1M_CANDLES + 1)

\* C20: for every n, get_latest_1m(n) and get_latest_5m(n) return the
\* last min(n, history length) closed bars, oldest first, the empty list
\* when n <= 0 or the history is empty, and never the in-progress bar.
C20_LatestBars ==
    \A n \in QueryNs :
        LET r1 == GetLatest1m(buffer, n)
            r5 == GetLatest5m(buffer, n)
        IN  /\ IsNewestSuffix(r1, buffer.candles_1m, n)
            /\ IsNewestSuffix(r5, buffer.candles_5m, n)
            /\ n <= 0 => r1 = <<>> /\ r5 = <<>>
            /\ buffer.candles_1m = <<>> => r1 = <<>>
            /\ buffer.candles_5m = <<>> => r5 = <<>>
            /\ \A i \in DOMAIN r1 :
                   /\ r1[i] # buffer.current_candle
                   /\ r1[i].timestamp < buffer.current_minute
            /\ \A i \in DOMAIN r5 :
                   /\ r5[i] # buffer.current_candle
                   /\ r5[i].timestamp < buffer.current_minute

\* both histories hold more bars than a query for two asks for, with a
\* bar in progress
C20_Witness ==
    /\ Len(buffer.candles_1m) > 2
    /\ Len(buffer.candles_5m) >= 2
    /\ buffer.current_candle # NoCandle
    /\ Len(GetLatest1m(buffer, 2)) = 2
    /\ GetLatest1m(buffer, 2)[2] = buffer.candles_1m[Len(buffer.candles_1m)]
    /\ GetLatest5m(buffer, 1) = <<buffer.candles_5m[Len(buffer.candles_5m)]>>
    /\ GetLatest1m(buffer, 0) = <<>>

\* the progress and signal fields are as reset() leaves them
NothingRecorded(d) ==
    /\ d.breakout_seen = FALSE
    /\ d.breakout_direction = "none"
    /\ d.breakout_time = None
    /\ d.breakout_candle = NoBreakout
    /\ d.retest_active = FALSE
    /\ d.retest_candle = NoCandle
    /\ d.confirmed = FALSE
    /\ d.invalidated = FALSE
    /\ d.entry_signal = NoSignal
    /\ d.signal_delivered = FALSE

\* C21: each of the first SKIP_FIRST_N process_candle calls after reset()
\* returns null and records no breakout, retest or confirmation whatever
\* the bar is; every call, in every detector state, appends the bar to
\* the sliding window (oldest evicted) and increments the counter.
C21_WarmupSkipsButCounts ==
    [][op' = "process_candle" =>
           /\ detector'.candles_since_or_lock
                  = detector.candles_since_or_lock + 1
           /\ detector'.candle_history # <<>>
           /\ Len(detector'.candle_history)
                  = IF Len(detector.candle_history) < HISTORY_LIMIT
                    THEN Len(detector.candle_history) + 1
                    ELSE HISTORY_LIMIT
           /\ BarOf(detector').timestamp
                  = BarTime(detector.candles_since_or_lock + 1)
           /\ \A i \in 1..(Len(detector'.candle_history) - 1) :
                  detector'.candle_history[i] =
                      detector.candle_history[
                          Len(detector.candle_history)
                              - (Len(detector'.candle_history) - 1) + i]
           /\ detector'.candles_since_or_lock <= SKIP_FIRST_N =>
                  /\ ret' = NoSignal
                  /\ NothingRecorded(detector')]_vars

\* the last warm-up call was made with a bar closing outside the OR and
\* recorded nothing
C21_Witness ==
    /\ op = "process_candle"
    /\ detector.candles_since_or_lock = SKIP_FIRST_N
    /\ BarOf(detector).close > detector.or_high
    /\ NothingRecorded(detector)
    /\ ret = NoSignal

\* session-end local time tested by _handle_post_or_trading
SessionEnd == TimeHM(16, 0)

\* C22: after any update() made at or after the session-end local time,
\* can_trade() is false, whatever transitions of that date came before.
C22_NoTradingAfterSessionEnd ==
    (op = "update" /\ TimeOf(now) >= SessionEnd) => ~CanTrade

\* the timestamps of a sequence are strictly increasing
StrictlyIncreasing(ts) ==
    \A i \in 1..(Len(ts) - 1) : ts[i] < ts[i + 1]

\* C23: every orchestrator (LiveTrader._event_loop and main.on_tick) hands
\* closed base bars to process_candle in strictly increasing timestamp
\* order, and any given closed bar at most once.
C23_BarsPassedOnceInOrder == StrictlyIncreasing(trader.passed)

\* the successful place_order calls made for session date dt
Placed(dt) ==
    {i \in DOMAIN trader.orders :
        trader.orders[i].ok /\ trader.orders[i].date = dt}

\* C24: in LiveTrader at most one order placement succeeds per session
\* date: the call in which place_order answers true also marks the trade
\* taken, so the session is closed before any further bar is processed,
\* and no place_order call of the same date follows it.
C24_OneOrderPerDate ==
    [][/\ \A dt \in 1..MaxDays : Cardinality(Placed(dt)') <= 1
       /\ \A i \in DOMAIN trader.orders' :
             trader.orders'[i].ok =>
                 \A j \in (i + 1)..Len(trader.orders') :
                     trader.orders'[j].date # trader.orders'[i].date
       /\ (/\ Len(trader.orders') > Len(trader.orders)
           /\ trader.orders'[Len(trader.orders')].ok) =>
              /\ session'.trade_taken
              /\ session'.state = "SESSION_CLOSED"
              /\ ~CanTradeOf(session')
       /\ (/\ Len(trader.passed') > Len(trader.passed)
           /\ trader.orders # <<>>
           /\ trader.orders[Len(trader.orders)].ok) =>
              trader.orders[Len(trader.orders)].date # session'.current_date
      ]_vars

\* an order was placed on day 1, newer bars of day 1 were polled after it,
\* and the next order was placed on day 2
C24_Witness ==
    /\ Len(trader.orders) >= 2
    /\ \E i \in 1..(Len(trader.orders) - 1) :
          /\ trader.orders[i].ok
          /\ trader.orders[i].date = 1
          /\ trader.orders[i + 1].date = 2
          /\ \E k \in 1..(Len(trader.passed) - 1) :
                /\ DateOf(trader.passed[k]) = 1
                /\ trader.passed[k] < At(1, 9, OrchLastMinute - 1)
                /\ DateOf(trader.passed[k + 1]) = 2

\* C25: in CONFIRMING a bar confirms only if its close breaks the
\* consolidation zone favourably and its close and its high (long) or low
\* (short) exceed those of the prior bar; a 3-bar fair-value gap replaces
\* the body-ratio requirement only, never those.
C25_GapReplacesBodyRatioOnly ==
    [][(/\ op' = "process_candle"
        /\ Stage(detector) = "CONFIRMING"
        /\ detector'.confirmed) =>
           LET candle == BarOf(detector')
               prev == BarOf(detector)
               cons_low == detector.retest_candle.low - Tol(detector)
               cons_high == detector.retest_candle.high + Tol(detector)
           IN  IF detector.breakout_direction = "long"
               THEN /\ candle.close > cons_high
                    /\ candle.close > prev.close
                    /\ candle.high > prev.high
               ELSE /\ candle.close < cons_low
                    /\ candle.close < prev.close
                    /\ candle.low < prev.low]_vars

\* C26: in CONFIRMING the detector invalidates exactly when the close of
\* the bar is beyond the retest band on the adverse side; a bar whose wick
\* crosses the band edge while its close stays on the favourable side does
\* not invalidate.
C26_InvalidationByClose ==
    [][(op' = "process_candle" /\ Stage(detector) = "CONFIRMING") =>
           LET candle == BarOf(detector')
               band_low == Anchor(detector) - Tol(detector)
               band_high == Anchor(detector) + Tol(detector)
               adverse == IF detector.breakout_direction = "long"
                          THEN candle.close < band_low
                          ELSE candle.close > band_high
           IN  IsInvalidation(detector, detector') <=> adverse]_vars

\* the bar lies in the retest band [anchor - tol, anchor + tol] of d
TouchesBand(d, candle) ==
    /\ candle.low <= Anchor(d) + Tol(d)
    /\ candle.high >= Anchor(d) - Tol(d)

\* the close of the bar is back inside the opening range
ClosesBackInside(d, candle) ==
    IF d.breakout_direction = "long"
    THEN candle.close < d.or_high ELSE candle.close > d.or_low

\* C27 as stated: in RETEST_PENDING the invalidation test has priority (a
\* close back inside the OR resets to SEARCHING_BREAKOUT and records no
\* retest, also when the bar touches the band); any other bar records the
\* retest and moves to CONFIRMING exactly when [low, high] meets the band,
\* and otherwise leaves the stage unchanged.
C27_RetestOrUnchanged ==
    [][(op' = "process_candle" /\ Stage(detector) = "RETEST_PENDING") =>
           LET candle == BarOf(detector')
           IN  IF ClosesBackInside(detector, candle)
               THEN /\ Stage(detector') = "SEARCHING_BREAKOUT"
                    /\ detector'.retest_candle = NoCandle
               ELSE IF TouchesBand(detector, candle)
               THEN /\ Stage(detector') = "CONFIRMING"
                    /\ detector'.retest_candle = candle
               ELSE Stage(detector') = "RETEST_PENDING"]_vars

\* C27, amended: as above, except that a bar which neither invalidates
\* nor touches the band records no retest and leaves the stage at
\* RETEST_PENDING unless the Model-2 scan of the same call confirms.
C27_RetestOrModel2 ==
    [][(op' = "process_candle" /\ Stage(detector) = "RETEST_PENDING") =>
           LET candle == BarOf(detector')
           IN  IF ClosesBackInside(detector, candle)
               THEN /\ Stage(detector') = "SEARCHING_BREAKOUT"
                    /\ detector'.retest_candle = NoCandle
               ELSE IF TouchesBand(detector, candle)
               THEN /\ Stage(detector') = "CONFIRMING"
                    /\ detector'.retest_candle = candle
                    /\ ret' = NoSignal
               ELSE /\ detector'.retest_candle = NoCandle
                    /\ \/ Stage(detector') = "RETEST_PENDING"
                       \/ /\ Stage(detector') = "CONFIRMED"
                          /\ detector'.entry_signal.model = 2]_vars

\* a bar that touched the band and closed back inside the OR has just
\* rolled the breakout back, and no retest is recorded
C27_Witness ==
    /\ op = "process_candle"
    /\ calls # <<>>
    /\ calls[Len(calls)].invalidated
    /\ Stage(detector) = "SEARCHING_BREAKOUT"
    /\ detector.retest_candle = NoCandle
    /\ BarOf(detector).close < detector.or_high
    /\ BarOf(detector).close > detector.or_low
    /\ BarOf(detector).low <= detector.or_high + Tol(detector)
    /\ BarOf(detector).high >= detector.or_high - Tol(detector)
    /\ Len(detector.candle_history) >= 2
    /\ detector.candle_history[Len(detector.candle_history) - 1].close
           > detector.or_high

\* positions (from 1) of the window bars that are the breakout bar or later
SinceBreakout(d) ==
    {i \in DOMAIN d.candle_history :
        d.candle_history[i].timestamp >= d.breakout_time}

\* a 3-bar gap in the direction of the breakout whose bars are the
\* breakout bar or later and lie in the most recent FVG_SCAN bars
GapSinceBreakout(d) ==
    \E i \in SinceBreakout(d) :
        /\ i + FVG_LOOKBACK - 1 <= Len(d.candle_history)
        /\ i > Len(d.candle_history) - FVG_SCAN
        /\ GapAt(d, i - 1)

\* C28: for a breakout recorded at any point of the session, however many
\* bars were processed before it, once FVG_WAIT bars have accumulated from
\* the breakout bar on while the detector is RETEST_PENDING every call
\* runs the Model-2 scan, so no call ends in RETEST_PENDING while a gap
\* formed since the breakout is in the window: the gap is confirmed.
C28_GapAfterBreakoutConfirmed ==
    (/\ op = "process_candle"
     /\ Stage(detector) = "RETEST_PENDING"
     /\ Cardinality(SinceBreakout(detector)) >= FVG_WAIT)
        => ~GapSinceBreakout(detector)

\* position (from 1) in the window of d of the bar stamped t
PositionOf(d, t) ==
    CHOOSE i \in DOMAIN d.candle_history : d.candle_history[i].timestamp = t

\* C29: the window on which the Model-2 scan confirms lies within the most
\* recent FVG_SCAN bars of the sliding window and starts at the breakout
\* bar or later, also after old bars have been evicted; it is the oldest
\* window with a gap among those, and its last bar is the entry bar.
C29_ScanWindow ==
    [][(/\ op' = "process_candle"
        /\ RecordedConfirmation(detector, detector')
        /\ detector'.entry_signal.model = 2) =>
           LET e == detector'
               h == e.candle_history
               n == Len(h)
               last == PositionOf(e, e.entry_signal.entry_time)
               first == last - (FVG_LOOKBACK - 1)
           IN  /\ \E i \in DOMAIN h :
                     h[i].timestamp = e.entry_signal.entry_time
               /\ first >= 1
               /\ first > n - FVG_SCAN
               /\ h[first].timestamp >= e.breakout_time
               /\ GapAt(e, first - 1)
               /\ e.entry_signal.entry_price = h[last].close
               /\ \A j \in SinceBreakout(e) :
                     (/\ j < first
                      /\ j > n - FVG_SCAN
                      /\ j + FVG_LOOKBACK - 1 <= n) => ~GapAt(e, j - 1)]_vars

\* a Model-2 confirmation made after the breakout bar has moved down the
\* window: more bars were processed than the window holds
C29_Witness ==
    /\ op = "process_candle"
    /\ detector.confirmed
    /\ detector.entry_signal.model = 2
    /\ ret = detector.entry_signal
    /\ ~detector.signal_delivered
    /\ detector.candles_since_or_lock > HISTORY_LIMIT
    /\ detector.entry_signal.entry_time = BarOf(detector).timestamp
    /\ detector.candle_history[detector.breakout_candle.index + 1].timestamp
           > detector.breakout_time

\* C30: for a Model-1 signal with a recorded retest bar the entry is the
\* close of the confirming bar; the stop is the low (long) or high (short)
\* of the retest bar unless that value is on the wrong side of the entry or
\* equal to it, in which case the stop is the entry minus (long) or plus
\* (short) 0.50; the target is entry + 2 x (entry - stop) for a long and
\* entry - 2 x (stop - entry) for a short.
C30_StructuralStop ==
    [][(/\ op' = "process_candle"
        /\ RecordedConfirmation(detector, detector')
        /\ detector'.entry_signal.model = 1
        /\ detector'.retest_candle # NoCandle) =>
           LET sig == detector'.entry_signal
               retest == detector'.retest_candle
               entry == BarOf(detector').close
               stop == IF sig.direction = "long"
                       THEN IF retest.low >= entry
                            THEN entry - SL_FALLBACK ELSE retest.low
                       ELSE IF retest.high <= entry
                            THEN entry + SL_FALLBACK ELSE retest.high
               target == IF sig.direction = "long"
                         THEN entry + 2 * (entry - stop)
                         ELSE entry - 2 * (stop - entry)
           IN  /\ sig.direction \in {"long", "short"}
               /\ sig.entry_price = entry
               /\ sig.sl = stop * FINE
               /\ sig.tp = target * FINE
               /\ ret' = sig]_vars

\* a long Model-1 signal whose retest low lies above the entry: the stop
\* is half a point under the entry
C30_Witness ==
    /\ op = "process_candle"
    /\ ret # NoSignal
    /\ ret.model = 1
    /\ ret.direction = "long"
    /\ detector.retest_candle.low > ret.entry_price
    /\ ret.sl = (ret.entry_price - SL_FALLBACK) * FINE
    /\ ret.tp = (ret.entry_price + 2 * SL_FALLBACK) * FINE

\* C31: in every signal the detector holds, the stop is strictly on the
\* adverse side of the entry price and the target strictly on the
\* favourable side: sl < entry < tp for long, tp < entry < sl for short
C31_StopAndTargetSides ==
    LET e == detector.entry_signal
    IN  e # NoSignal =>
            IF e.direction = "long"
            THEN e.sl < e.entry_price * FINE /\ e.entry_price * FINE < e.tp
            ELSE e.tp < e.entry_price * FINE /\ e.entry_price * FINE < e.sl

\* C32: the entry bar of a signal is the bar passed to the process_candle
\* call on which the detector confirmed: entry_time and entry_price are
\* the timestamp and the close of the newest bar of the window, never
\* those of an older bar.
C32_EntryIsProcessedBar ==
    [][(/\ op' = "process_candle"
        /\ RecordedConfirmation(detector, detector')) =>
           LET h == detector'.candle_history
               e == detector'.entry_signal
           IN  /\ e.entry_time = h[Len(h)].timestamp
               /\ e.entry_price = h[Len(h)].close]_vars

\* update() has been called on date dt at or after the session-end time
CalledAfterEnd(dt) ==
    /\ op = "update"
    /\ session.current_date = dt
    /\ DateOf(now) = dt
    /\ TimeOf(now) >= SessionEnd

\* C33: on every date on which update() keeps being called after the
\* session-end time the session eventually reaches SESSION_CLOSED (unless
\* the clock moves on to a later date first), also on a date without any
\* opening-range aggregate bar.
C33_EventuallyClosed ==
    \A dt \in 1..MaxDays :
        CalledAfterEnd(dt) ~>
            (session.state = "SESSION_CLOSED" \/ DateOf(now) > dt)

\* C34: trade_taken is set only in SESSION_CLOSED, and POST_OR_TRADING is
\* never reached with trade_taken set or with an OR bound unset: in
\* POST_OR_TRADING can_trade() is true.
C34_TradingImpliesCanTrade ==
    /\ session.trade_taken => session.state = "SESSION_CLOSED"
    /\ session.state = "POST_OR_TRADING" =>
           /\ ~session.trade_taken
           /\ session.or_high # None /\ session.or_low # None
           /\ CanTrade

\* an update() past the lock time, with the opening-range bar in the
\* history, of a session closed by mark_trade_taken() before the lock
C34_Witness ==
    /\ op = "update"
    /\ session.trade_taken
    /\ session.or_high = None
    /\ session.current_date = DateOf(now)
    /\ TimeOf(now) >= TimeHM(9, 35)
    /\ GetOrCandles(buffer, DateOf(now)) # <<>>

\* C35: get_or_range() returns (None, None) in PRE_OR and OR_BUILDING and
\* a pair with both values set and high >= low in OR_LOCKED and
\* POST_OR_TRADING; in every state the two values are both set or both
\* unset.
C35_OrRangeByState ==
    LET r == GetOrRange(session)
    IN  /\ session.state \in {"PRE_OR", "OR_BUILDING"} => r = <<None, None>>
        /\ session.state \in {"OR_LOCKED", "POST_OR_TRADING"} =>
               /\ r[1] # None /\ r[2] # None
               /\ r[1] >= r[2]
        /\ (r[1] = None) <=> (r[2] = None)

\* a range locked from bars of different levels
C35_Witness ==
    /\ op = "update"
    /\ session.state = "OR_LOCKED"
    /\ GetOrRange(session)[1] > GetOrRange(session)[2]

\* the bars of the buffer that were passed to process_candle
PassedAt(i) ==
    \E n \in DOMAIN trader.passed :
        trader.passed[n] = buffer.candles_1m[i].timestamp

\* C36: in LiveTrader no bar that closes while can_trade() holds is
\* skipped: a closed bar lying between two bars of the same date that
\* were passed to the detector has been passed too, however the ticks
\* interleave with the polling loop.
C36_NoBarSkipped ==
    \A i, k, j \in DOMAIN buffer.candles_1m :
        (/\ i < k /\ k < j
         /\ PassedAt(i) /\ PassedAt(j)
         /\ DateOf(buffer.candles_1m[i].timestamp)
                = DateOf(buffer.candles_1m[j].timestamp)) => PassedAt(k)

\* C37: LiveTrader never calls place_order while the executor holds an
\* open position, also when a position opened on one date is still open
\* when the session of the next date reaches POST_OR_TRADING.
C37_NoOrderWhileHolding ==
    [][Len(trader'.orders) > Len(trader.orders) => ~HasPosition(trader)]_vars

\* the process_candle calls LiveTrader made on date dt
PassedOn(dt) == {n \in DOMAIN trader.passed : DateOf(trader.passed[n]) = dt}

\* C38: in LiveTrader the detector is reset at the rollover to a new date
\* before any bar of that date is processed: its window, breakout, retest,
\* signal and counter come from bars of the session's date only.
C38_DetectorOfCurrentDate ==
    LET dt == session.current_date
        h == detector.candle_history
    IN  /\ \A i \in DOMAIN h : DateOf(h[i].timestamp) = dt
        /\ detector.candles_since_or_lock = Cardinality(PassedOn(dt))
        /\ detector.breakout_seen => DateOf(detector.breakout_time) = dt
        /\ detector.retest_candle # NoCandle =>
               DateOf(detector.retest_candle.timestamp) = dt
        /\ detector.entry_signal # NoSignal =>
               DateOf(detector.entry_signal.entry_time) = dt

\* a breakout recorded on the second date after bars were processed and a
\* breakout was recorded on the first
C38_Witness ==
    /\ op = "loop_poll"
    /\ session.current_date = 2
    /\ detector.breakout_seen
    /\ Cardinality(PassedOn(1)) > SKIP_FIRST_N
    /\ Cardinality(PassedOn(2)) > SKIP_FIRST_N

\* the timestamps of a history, oldest first
Stamps(h) == [i \in DOMAIN h |-> h[i].timestamp]

\* C39: in the base and in the aggregate history the bar timestamps are
\* strictly increasing from oldest to newest, whatever the order of the
\* ticks and the windows without a tick: no window appears twice, and a
\* tick appends at most one base bar and at most one aggregate bar.
C39_HistoriesStrictlyIncreasing ==
    /\ StrictlyIncreasing(Stamps(buffer.candles_1m))
    /\ StrictlyIncreasing(Stamps(buffer.candles_5m))
    /\ StrictlyIncreasing(Stamps(closed.m1))
    /\ StrictlyIncreasing(Stamps(closed.m5))

\* two aggregate bars, the first built across windows without a tick, and
\* a latest tick stamped earlier than the open window
C39_Witness ==
    /\ op = "add_tick"
    /\ Len(buffer.candles_5m) >= 2
    /\ buffer.candles_5m[1].timestamp = At(1, 9, 25)
    /\ conc.tick.timestamp < buffer.current_minute

\* C40: is_invalidated() returns False after any sequence of
\* process_candle and reset() calls: an invalidation is an immediate
\* rollback and never a state the detector rests in.
C40_NeverInvalidated == ~IsInvalidated(detector)

\* a call that invalidated a breakout, after an earlier invalidation
C40_Witness ==
    /\ op = "process_candle"
    /\ Len(calls) >= 2
    /\ calls[Len(calls)].invalidated
    /\ \E i \in 1..(Len(calls) - 1) : calls[i].invalidated
    /\ ~IsInvalidated(detector)
    /\ ~detector.breakout_seen

====
